---- MODULE Spec2Model ----
(***************************************************************************)
(* Trade lifecycle and price synchronization of the options-spread         *)
(* tracker: the record repository (src/src/database/db_manager.py), the    *)
(* lifecycle manager (src/src/services/trade_manager.py) and the price     *)
(* synchronization engine (src/src/services/price_tracking.py).            *)
(*                                                                         *)
(* Persisted tables are modelled by what a reader on another connection    *)
(* sees, i.e. the committed rows.  Every repository method opens its own   *)
(* connection and commits once, so one method is one atomic step, except   *)
(* complete_trade, whose SELECT / INSERT / DELETE / COMMIT are separate    *)
(* steps of one transaction so that a failure between them can be taken.   *)
(***************************************************************************)
EXTENDS Integers, Sequences, FiniteSets, TLC

\* ------------------------------------------------------------------ bounds
MaxId == 2          \* largest rowid active_trades hands out in the model
MaxClock == 2       \* last instant of the clock
TicksPerDay == 2    \* instants per calendar day; instant d*TicksPerDay is midnight
MaxHistory == 2     \* cap on trade_status_history rows
MaxPasses == 2      \* update_prices passes in one behaviour
MaxWorkers == 2     \* widest outer pool (max_workers) tried
MaxFaults == 1      \* repository calls that raise in one behaviour
MaxCycles == 4      \* scan cycles start() begins in one behaviour
MaxScans == 2       \* most scans list_scans returns
MaxInterval == 2    \* instants a wait between cycles lasts (scan_interval, retry_delay)
MaxItems == 2       \* most items in one scan result
MaxTrades == 5      \* longest list handed to calculate_correlation_matrix

\* --------------------------------------------------------------- vocabulary
NoSymbol == ""
NoId == 0

Slots == <<"short_call", "long_call", "short_put", "long_put">>
SlotSet == {Slots[i] : i \in 1..Len(Slots)}

\* trade_type IN ('BULL_PUT', 'BEAR_CALL', 'IRON_CONDOR')
ValidTradeTypes == {"BULL_PUT", "BEAR_CALL", "IRON_CONDOR"}
\* status IN ('OPEN', 'CLOSING', 'EXPIRED')
ValidStatuses == {"OPEN", "CLOSING", "EXPIRED"}
\* exit_type IN ('EXPIRED', 'CLOSED_EARLY', 'STOPPED_OUT', 'ROLLED')
ValidExitTypes == {"EXPIRED", "CLOSED_EARLY", "STOPPED_OUT", "ROLLED"}

\* The columns of an active_trades row as SELECT * returns them.
ActiveTradeColumns ==
    {"trade_id", "symbol", "underlying_price", "trade_type", "entry_date",
     "expiration_date", "short_put", "long_put", "short_put_symbol",
     "long_put_symbol", "short_call", "long_call", "short_call_symbol",
     "long_call_symbol", "net_credit", "num_contracts", "status",
     "created_at", "updated_at"}

Days == 0..(MaxClock \div TicksPerDay)
Today(t) == t \div TicksPerDay

\* The put pair of a BULL_PUT spread, as the ingestion pipeline fills it.
PutPair == [s \in SlotSet |-> CASE s = "short_put" -> "A"
                                [] s = "long_put" -> "B"
                                [] OTHER -> NoSymbol]

\* A call pair, with the put slots passed as None.
CallPair == [s \in SlotSet |-> CASE s = "short_call" -> "C"
                                 [] s = "long_call" -> "D"
                                 [] OTHER -> NoSymbol]

\* Arguments offered to save_new_trade: valid rows, rows the CHECK
\* constraints refuse (unknown trade_type, net_credit = 0, num_contracts = 0),
\* and rows whose
\* populated slots are not those of the trade_type.
TradeInputs ==
    [trade_type : {"BULL_PUT", "BULL_CALL"},
     expiration_date : Days,
     net_credit : {0, 1},
     num_contracts : {0, 1},
     legs : {PutPair, CallPair}]

\* Arguments offered to complete_trade.
ExitInputs ==
    { [exit_debit |-> 0, actual_profit_loss |-> 1, exit_type |-> "EXPIRED"],
      [exit_debit |-> 1, actual_profit_loss |-> 0, exit_type |-> "CLOSED_EARLY"] }

NoTrade == [trade_id |-> NoId, trade_type |-> "", expiration_date |-> 0,
            status |-> "", net_credit |-> 0, num_contracts |-> 0,
            legs |-> [s \in SlotSet |-> NoSymbol]]
NoExit == [exit_debit |-> 0, actual_profit_loss |-> 0, exit_type |-> ""]

VARIABLES
    now,        \* the clock, in instants
    active,     \* active_trades: trade_id -> row (committed)
    completed,  \* completed_trades: trade_id -> row (committed)
    history,    \* trade_status_history, in insertion order
    stored,     \* every trade_id save_new_trade has returned
    ct,         \* the complete_trade call in progress and its open transaction
    pat,        \* the process_active_trades call in progress
    tracking,   \* option_price_tracking, row i has tracking_id i (committed)
    sync,       \* the update_prices pass: its position, pool width, pass count
    tw,         \* trade_id -> the _process_trade_options task of the pass
    lw,         \* <<trade_id, slot>> -> the _process_single_option task of the pass
    stats,      \* the stats dictionary of the pass
    ev,         \* what happened in the pass, counted when it happens
    faults,     \* repository calls that have raised sqlite3.Error so far
    rpt,        \* the collect_data call of the report: position, work lists, result
    snt,        \* the save_new_trade call: idle, or raising what the INSERT raised
    corr,       \* the calculate_correlation_matrix call: its argument and result
    scan,       \* the scan manager: position of start(), stop_event, cycles begun
    pipe,       \* the process_scan_results call: items left, ids stored so far
    val,        \* one trade and its leg prices, valued by manager and collector
    exs,        \* the _execute_scan call: attempts, cache and last-scan time
    app         \* the application: components started, position of the shutdown

syncVars == <<tracking, sync, tw, lw, stats, ev, faults>>
appVars == <<val, exs, app>>
auxVars == <<corr, scan, pipe, appVars>>
vars == <<now, active, completed, history, stored, ct, pat, syncVars, rpt, snt, auxVars>>

\* ------------------------------------------------------------ repository
\* INTEGER PRIMARY KEY without AUTOINCREMENT: the new rowid is one more than
\* the largest rowid currently in the table.
MaxOf(S) == CHOOSE m \in S : \A x \in S : x <= m
NextRowId(table) == IF DOMAIN table = {} THEN 1 ELSE MaxOf(DOMAIN table) + 1

\* The CHECK constraints of active_trades on an inserted row.
\* (ActiveChecksPassTypeOnly is the variant with the CHECK on trade_type only.)
ActiveChecksPassTypeOnly(d) == d.trade_type \in ValidTradeTypes
ActiveChecksPass(d) ==
    /\ d.trade_type \in ValidTradeTypes
    /\ d.net_credit > 0
    /\ d.num_contracts > 0

\* The CHECK constraints a row fails; the sqlite3.IntegrityError names one.
FailedChecks(d) ==
    {c \in {"trade_type", "net_credit > 0", "num_contracts > 0"} :
        \/ c = "trade_type" /\ d.trade_type \notin ValidTradeTypes
        \/ c = "net_credit > 0" /\ ~(d.net_credit > 0)
        \/ c = "num_contracts > 0" /\ ~(d.num_contracts > 0)}

\* The CHECK and PRIMARY KEY constraints of completed_trades.
CompletedChecksPass(comp, trade, exit) ==
    /\ trade.trade_id \notin DOMAIN comp
    /\ trade.net_credit > 0
    /\ exit.exit_debit >= 0
    /\ trade.num_contracts > 0
    /\ exit.exit_type \in ValidExitTypes

\* The lifecycle side has one thread of control (no pool in trade_manager.py
\* or its callers): a repository call or a process_active_trades pass starts
\* only when no other is in progress.  The steps inside complete_trade and
\* inside a pass are what a reader on another connection, or a crash, can see.
ClientIdle == ct.pc = "idle" /\ pat.pc = "idle" /\ snt.pc = "idle"

\* Trigger log_status_change: AFTER UPDATE OF status WHEN NEW.status != OLD.status.
LogStatusChange(h, id, old, new) ==
    IF new # old THEN Append(h, [trade_id |-> id, old_status |-> old, new_status |-> new])
    ELSE h

\* UPDATE active_trades SET status = ? WHERE trade_id = ?  (no row: no effect)
SetStatus(tbl, id, new) ==
    IF id \in DOMAIN tbl THEN [tbl EXCEPT ![id].status = new] ELSE tbl

CtIdle == [pc |-> "idle", trade |-> NoTrade, exit |-> NoExit, caller |-> "api",
           at |-> ""]

NoStats == [total_trades |-> 0, active_trades |-> 0, expired_trades |-> 0, errors |-> 0]

\* The stats dictionary of update_prices, lines 70-79 (the two timing entries,
\* which depend on wall-clock durations only, are left out).
ZeroStats == [trades_processed |-> 0, options_checked |-> 0, records_created |-> 0,
              records_updated |-> 0, records_completed |-> 0, errors |-> 0]

\* The same events counted as they happen, and the provider calls that failed.
ZeroEvents == [trades_processed |-> 0, options_checked |-> 0, records_created |-> 0,
               records_updated |-> 0, records_completed |-> 0, errors |-> 0,
               provider_failures |-> 0]

\* The collect_data call: not running.
RptIdle == [pc |-> "idle", active_todo |-> << >>, completed_todo |-> << >>,
            trades |-> << >>, completed_trades |-> << >>, report |-> << >>]

\* The save_new_trade call: not running.
SntIdle == [pc |-> "idle", error |-> ""]

\* The calculate_correlation_matrix call: not made.
CorrIdle == [pc |-> "idle", active_trades |-> << >>, matrix |-> << >>]

\* The scan manager after __init__: start() not called, stop_event clear.
\* cycles: scan cycles begun; after_stop: those begun with stop_event set;
\* todo: scans of the cycle not yet handled; left: what is left of the wait.
ScanIdle == [pc |-> "idle", stop_event |-> FALSE, cycles |-> 0, after_stop |-> 0,
             todo |-> 0, left |-> 0]

\* The process_scan_results call: not running.
\* remaining: items of the call not yet looked at; built: the scan item each
\* entry of stored_trades was built from; last: how the last item ended.
PipeIdle == [pc |-> "idle", price_service |-> FALSE, remaining |-> 0,
             stored_trades |-> << >>, built |-> << >>, last |-> ""]

\* No valuation made.
ValIdle == [pc |-> "idle"]

\* _execute_scan not called.
ExsIdle == [pc |-> "idle"]

\* The application before start().
AppIdle == [pc |-> "idle"]

AppVarsInit == val = ValIdle /\ exs = ExsIdle /\ app = AppIdle

\* found_expired: the trades the pass in progress found past expiration.
PatIdle == [pc |-> "idle", todo |-> << >>, stats |-> NoStats, found_expired |-> {}]

Init ==
    /\ now = 0
    /\ active = << >>
    /\ completed = << >>
    /\ history = << >>
    /\ stored = {}
    /\ ct = CtIdle
    /\ pat = PatIdle
    /\ tracking = << >>
    /\ sync = [pc |-> "idle", passes |-> 0, max_workers |-> 1]
    /\ tw = << >>
    /\ lw = << >>
    /\ stats = ZeroStats
    /\ ev = ZeroEvents
    /\ faults = 0
    /\ rpt = RptIdle
    /\ snt = SntIdle
    /\ corr = CorrIdle
    /\ scan = ScanIdle
    /\ pipe = PipeIdle
    /\ AppVarsInit

Tick ==
    /\ now < MaxClock
    /\ now' = now + 1
    /\ UNCHANGED <<active, completed, history, stored, ct, pat, rpt, syncVars,
                   snt, auxVars>>

\* DatabaseManager.save_new_trade: the INSERT and its commit; a CHECK that
\* fails raises sqlite3.IntegrityError and nothing is inserted.
SaveNewTrade(d) ==
    /\ ClientIdle
    /\ LET id == NextRowId(active) IN
       /\ id <= MaxId
       /\ IF ActiveChecksPass(d)
          THEN /\ active' = active @@ (id :> [trade_id |-> id,
                                              trade_type |-> d.trade_type,
                                              expiration_date |-> d.expiration_date,
                                              status |-> "OPEN",
                                              net_credit |-> d.net_credit,
                                              num_contracts |-> d.num_contracts,
                                              legs |-> d.legs])
               /\ stored' = stored \cup {id}
               /\ snt' = snt
          ELSE /\ UNCHANGED <<active, stored>>
               /\ \E c \in FailedChecks(d) : snt' = [pc |-> "raised", error |-> c]
    /\ UNCHANGED <<now, completed, history, ct, pat, rpt, syncVars, auxVars>>

\* save_new_trade, lines 277-279: the error is logged and raised to the caller.
SaveNewTradeRaise ==
    /\ snt.pc = "raised"
    /\ snt' = SntIdle
    /\ UNCHANGED <<now, active, completed, history, stored, ct, pat, rpt, syncVars,
                   auxVars>>

\* DatabaseManager.update_trade_status
UpdateTradeStatus(id, new) ==
    /\ ClientIdle
    /\ IF new \notin ValidStatuses
       THEN UNCHANGED <<active, history>>
       ELSE /\ active' = SetStatus(active, id, new)
            /\ history' = IF id \in DOMAIN active
                          THEN LogStatusChange(history, id, active[id].status, new)
                          ELSE history
            /\ Len(history') <= MaxHistory
    /\ UNCHANGED <<now, completed, stored, ct, pat, rpt, syncVars, snt, auxVars>>

\* ------------------------------------------------- complete_trade
Without(tbl, id) == [i \in DOMAIN tbl \ {id} |-> tbl[i]]

\* The completed_trades row complete_trade inserts.  The columns copied
\* unchanged from the active row and read by no operation here (symbol,
\* dates, strikes, option symbols) are left out.
CompletedRow(trade, exit) ==
    [trade_id |-> trade.trade_id,
     trade_type |-> trade.trade_type,
     entry_credit |-> trade.net_credit,
     exit_debit |-> exit.exit_debit,
     num_contracts |-> trade.num_contracts,
     actual_profit_loss |-> exit.actual_profit_loss,
     exit_type |-> exit.exit_type]

\* What other connections see of completed_trades once the INSERT statement
\* has run and before conn.commit(): the sqlite3 module opens a transaction
\* before the INSERT, so nothing yet.  (AfterInsertAutocommit is what a
\* connection opened with isolation_level=None would show instead.)
AfterInsertAutocommit(comp, trade, exit) ==
    comp @@ (trade.trade_id :> CompletedRow(trade, exit))
AfterInsert(comp, trade, exit) == comp

\* What other connections see of active_trades once the DELETE statement has
\* run and before conn.commit(): nothing yet.
AfterDelete(tbl, id) == tbl

\* The except clause of process_active_trades around one trade (lines 140-143).
\* (PatTradeFailedEndsLoop is the variant in which the exception leaves the loop.)
PatTradeFailedEndsLoop(p) ==
    [p EXCEPT !.pc = "loop", !.todo = << >>, !.stats.errors = @ + 1]
PatTradeFailed(p) ==
    [p EXCEPT !.pc = "loop", !.todo = Tail(p.todo), !.stats.errors = @ + 1]

\* Lines 128-131: the expired trade was completed.
PatTradeExpired(p) ==
    [p EXCEPT !.pc = "loop", !.todo = Tail(p.todo), !.stats.expired_trades = @ + 1]

\* complete_trade, lines 321-336: required keys, SELECT * FROM active_trades.
\* (CompleteTradeBeginUnchecked is the variant without the test of line 335:
\* it goes on to the INSERT with whatever the SELECT returned.)
CompleteTradeBeginUnchecked(id, exit) ==
    /\ ClientIdle
    /\ ct' = [pc |-> "selected",
              trade |-> IF id \in DOMAIN active THEN active[id]
                        ELSE [NoTrade EXCEPT !.trade_id = id, !.net_credit = 1,
                                             !.num_contracts = 1],
              exit |-> exit, caller |-> "api", at |-> ""]
    /\ UNCHANGED <<now, active, completed, history, stored, pat, syncVars, rpt,
                   snt, auxVars>>
CompleteTradeBegin(id, exit) ==
    /\ ClientIdle
    /\ ct' = IF id \in DOMAIN active
             THEN [pc |-> "selected", trade |-> active[id], exit |-> exit,
                   caller |-> "api", at |-> ""]
             ELSE [CtIdle EXCEPT !.pc = "failed", !.at = "select",
                                 !.trade = [NoTrade EXCEPT !.trade_id = id]]
    /\ UNCHANGED <<now, active, completed, history, stored, pat, syncVars, rpt,
                   snt, auxVars>>

\* Lines 338-362: INSERT INTO completed_trades; a constraint failure raises
\* sqlite3.IntegrityError.
CompleteTradeInsert ==
    /\ ct.pc = "selected"
    /\ IF CompletedChecksPass(completed, ct.trade, ct.exit)
       THEN /\ ct' = [ct EXCEPT !.pc = "inserted"]
            /\ completed' = AfterInsert(completed, ct.trade, ct.exit)
       ELSE /\ ct' = [ct EXCEPT !.pc = "failed", !.at = "selected"]
            /\ completed' = completed
    /\ UNCHANGED <<now, active, history, stored, pat, syncVars, rpt, snt,
                   auxVars>>

\* Lines 364-367: DELETE FROM active_trades, inside the same transaction.
CompleteTradeDelete ==
    /\ ct.pc = "inserted"
    /\ ct' = [ct EXCEPT !.pc = "deleted"]
    /\ active' = AfterDelete(active, ct.trade.trade_id)
    /\ UNCHANGED <<now, completed, history, stored, pat, syncVars, rpt, snt,
                   auxVars>>

\* Line 369: conn.commit() publishes the insert and the delete together.
CompleteTradeCommit ==
    /\ ct.pc = "deleted"
    /\ completed' = completed @@ (ct.trade.trade_id :> CompletedRow(ct.trade, ct.exit))
    /\ active' = Without(active, ct.trade.trade_id)
    /\ ct' = CtIdle
    /\ pat' = IF ct.caller = "pat" THEN PatTradeExpired(pat) ELSE pat
    /\ UNCHANGED <<now, history, stored, syncVars, rpt, snt, auxVars>>

\* A statement raises sqlite3.Error, or the process dies, before the commit:
\* nothing of the open transaction is committed.
CompleteTradeFail ==
    /\ ct.pc \in {"selected", "inserted", "deleted"}
    /\ ct' = [ct EXCEPT !.pc = "failed", !.at = ct.pc]
    /\ UNCHANGED <<now, active, completed, history, stored, pat, syncVars, rpt,
                   snt, auxVars>>

\* Lines 76-84 of get_connection and 372-374: the connection is closed without
\* a commit, which rolls the transaction back, and the error reaches the caller.
CompleteTradeRaise ==
    /\ ct.pc = "failed"
    /\ ct' = CtIdle
    /\ pat' = IF ct.caller = "pat" THEN PatTradeFailed(pat) ELSE pat
    /\ UNCHANGED <<now, active, completed, history, stored, syncVars, rpt, snt,
                   auxVars>>

\* ------------------------------------------- process_active_trades
\* get_active_trades: SELECT * FROM active_trades ORDER BY expiration_date ASC
\* (rows of one expiration date in rowid order).
RECURSIVE OrderByExpiration(_, _)
OrderByExpiration(tbl, ids) ==
    IF ids = {} THEN << >>
    ELSE LET first == CHOOSE i \in ids : \A j \in ids :
                          \/ tbl[i].expiration_date < tbl[j].expiration_date
                          \/ /\ tbl[i].expiration_date = tbl[j].expiration_date
                             /\ i <= j
         IN <<tbl[first]>> \o OrderByExpiration(tbl, ids \ {first})

GetActiveTrades(tbl) == OrderByExpiration(tbl, DOMAIN tbl)

\* _parse_date of a 'YYYY-MM-DD' string is midnight of that day;
\* (expiration_date - datetime.now()).days is the floor of the difference.
DaysToExpiry(expiration_date, t) ==
    ((expiration_date * TicksPerDay) - t) \div TicksPerDay

\* (ExpiredTodayIncluded is the variant that takes the day of expiration too.)
ExpiredTodayIncluded(days_to_expiry) == days_to_expiry <= 0
\* Line 104: if days_to_expiry < 0.
Expired(days_to_expiry) == days_to_expiry < 0

\* Lines 64-78: read the active trades; an empty list returns at once.
PatStart ==
    /\ ClientIdle
    /\ LET rows == GetActiveTrades(active) IN
       pat' = [pc |-> IF rows = << >> THEN "idle" ELSE "loop",
               todo |-> rows,
               stats |-> [NoStats EXCEPT !.total_trades = Len(rows)],
               found_expired |-> {}]
    /\ UNCHANGED <<now, active, completed, history, stored, ct, syncVars, rpt,
                   snt, auxVars>>

\* Lines 81-109 and 133-138, one trade of the loop: an expired trade has its
\* status set to EXPIRED (committed by update_trade_status on its own
\* connection); any other trade is only valued and logged.
PatTrade ==
    /\ pat.pc = "loop"
    /\ pat.todo # << >>
    /\ LET trade == Head(pat.todo) IN
       IF Expired(DaysToExpiry(trade.expiration_date, now))
       THEN /\ active' = SetStatus(active, trade.trade_id, "EXPIRED")
            /\ history' = IF trade.trade_id \in DOMAIN active
                          THEN LogStatusChange(history, trade.trade_id,
                                               active[trade.trade_id].status, "EXPIRED")
                          ELSE history
            /\ Len(history') <= MaxHistory
            /\ pat' = [pat EXCEPT !.pc = "expired",
                                  !.found_expired = @ \cup {trade.trade_id}]
       ELSE /\ pat' = [pat EXCEPT !.todo = Tail(@), !.stats.active_trades = @ + 1]
            /\ UNCHANGED <<active, history>>
    /\ UNCHANGED <<now, completed, stored, ct, syncVars, rpt, snt, auxVars>>

\* Lines 111-127: trade['spread_type'] is read from the row dictionary, which
\* has the columns of active_trades; a missing key raises KeyError, caught at
\* line 140.  Otherwise complete_trade is called with exit_debit 0.
PatExpired ==
    /\ pat.pc = "expired"
    /\ LET trade == Head(pat.todo) IN
       IF "spread_type" \in ActiveTradeColumns
       THEN /\ pat' = [pat EXCEPT !.pc = "completing"]
            /\ ct' = IF trade.trade_id \in DOMAIN active
                     THEN [pc |-> "selected", trade |-> active[trade.trade_id],
                           exit |-> [exit_debit |-> 0,
                                     actual_profit_loss |->
                                         trade.net_credit * trade.num_contracts,
                                     exit_type |-> "EXPIRED"],
                           caller |-> "pat", at |-> ""]
                     ELSE ct
       ELSE /\ pat' = PatTradeFailed(pat)
            /\ ct' = ct
    /\ UNCHANGED <<now, active, completed, history, stored, syncVars, rpt, snt,
                   auxVars>>

\* Lines 145-150: the loop is over, the statistics are returned.
PatReturn ==
    /\ pat.pc = "loop"
    /\ pat.todo = << >>
    /\ pat' = PatIdle
    /\ UNCHANGED <<now, active, completed, history, stored, ct, syncVars, rpt,
                   snt, auxVars>>

Next ==
    \/ Tick
    \/ \E d \in TradeInputs : SaveNewTrade(d)
    \/ SaveNewTradeRaise
    \/ \E id \in 1..MaxId, s \in ValidStatuses \cup {"CLOSED"} : UpdateTradeStatus(id, s)
    \/ \E id \in 1..MaxId, x \in ExitInputs : CompleteTradeBegin(id, x)
    \/ CompleteTradeInsert
    \/ CompleteTradeDelete
    \/ CompleteTradeCommit
    \/ CompleteTradeFail
    \/ CompleteTradeRaise
    \/ PatStart
    \/ PatTrade
    \/ PatExpired
    \/ PatReturn

Spec == Init /\ [][Next]_vars

\* Repeated process_active_trades passes over trades that are stored while
\* the clock runs, with no other caller of the repository: a pass that can
\* start again and again does start, and a pass or a call in progress goes on.
NextPasses ==
    \/ Tick
    \/ \E d \in TradeInputs : SaveNewTrade(d)
    \/ SaveNewTradeRaise
    \/ PatStart
    \/ PatTrade
    \/ PatExpired
    \/ PatReturn

PassStep == PatTrade \/ PatExpired \/ PatReturn \/ SaveNewTradeRaise

SpecPasses == Init /\ [][NextPasses]_vars /\ SF_vars(PatStart) /\ WF_vars(PassStep)
\* ------------------------------------------------ price synchronization
\* _get_trade_option_symbols: the populated symbol slots, in the order
\* short_call, long_call, short_put, long_put.
RECURSIVE PopulatedFrom(_, _)
PopulatedFrom(legs, i) ==
    IF i > Len(Slots) THEN << >>
    ELSE (IF legs[Slots[i]] # NoSymbol THEN <<Slots[i]>> ELSE << >>)
         \o PopulatedFrom(legs, i + 1)

\* (GetTradeOptionSlotsShortOnly is the variant that reads the short legs only.)
GetTradeOptionSlotsShortOnly(trade) ==
    SelectSeq(PopulatedFrom(trade.legs, 1), LAMBDA sl : sl \in {"short_call", "short_put"})
GetTradeOptionSlots(trade) == PopulatedFrom(trade.legs, 1)

SeqRange(q) == {q[i] : i \in 1..Len(q)}

\* get_active_price_tracking(trade_id): the rows of the trade dated today and
\* not complete, ORDER BY last_update_time DESC LIMIT 1.  Rows with the same
\* last_update_time are in no specified order, so any of the latest may be
\* returned; NoId stands for None.
TodaysOpenRows(rows, trade_id, t) ==
    {i \in 1..Len(rows) : /\ rows[i].trade_id = trade_id
                          /\ rows[i].tracking_date = Today(t)
                          /\ ~rows[i].is_complete}

ActivePriceTracking(rows, trade_id, t) ==
    LET cand == TodaysOpenRows(rows, trade_id, t) IN
    IF cand = {} THEN {NoId}
    ELSE {i \in cand : \A j \in cand :
              rows[j].last_update_time <= rows[i].last_update_time}

\* What the quote provider can do for one call, and what
\* PriceService.get_option_data returns for it: every exception is caught and
\* turned into None ("none"), like a symbol the chain does not have; otherwise
\* the quote with is_market_closed from the market clock.
ProviderOutcomes == {"error", "absent", "open", "closed"}
GetOptionData(outcome) == IF outcome \in {"error", "absent"} THEN "none" ELSE outcome

\* create_option_price_tracking: INSERT; tracking_id is the next rowid,
\* is_complete defaults to FALSE, last_update_time to CURRENT_TIMESTAMP.
CreateOptionPriceTracking(rows, trade_id, symbol, data, t) ==
    Append(rows, [trade_id |-> trade_id,
                  tracking_date |-> Today(t),
                  option_symbol |-> symbol,
                  is_market_closed |-> (data = "closed"),
                  is_complete |-> FALSE,
                  last_update_time |-> t])

\* update_option_price: UPDATE ... SET <every key of price_data> WHERE
\* tracking_id = ?; price_data carries option_symbol and tracking_date too.
UpdateOptionPrice(rows, tracking_id, symbol, data, t) ==
    [rows EXCEPT ![tracking_id].option_symbol = symbol,
                 ![tracking_id].tracking_date = Today(t),
                 ![tracking_id].is_market_closed = (data = "closed")]

\* mark_tracking_complete
MarkTrackingComplete(rows, tracking_id) ==
    [rows EXCEPT ![tracking_id].is_complete = TRUE,
                 ![tracking_id].is_market_closed = TRUE]

\* get_latest_option_price_data(option_symbol): WHERE option_symbol = ? ORDER
\* BY tracking_id DESC LIMIT 1; NoId stands for None.
GetLatestOptionPriceData(rows, symbol) ==
    LET found == {i \in 1..Len(rows) : rows[i].option_symbol = symbol} IN
    IF found = {} THEN NoId ELSE MaxOf(found)

\* with self.stats_lock: the lock is free when no task is inside a with block.
InCritical(pc) == pc \in {"chk_w", "rec_w", "cmp_w", "err_w", "tp_w"}
\* (StatsLockFreeIgnored is the variant in which the with blocks do not exclude
\* one another.)
StatsLockFreeIgnored == TRUE
StatsLockFree ==
    /\ \A k \in DOMAIN lw : ~InCritical(lw[k].pc)
    /\ \A id \in DOMAIN tw : ~InCritical(tw[id].pc)

\* get_connection (db_manager.py): the connection is opened, handed to the with
\* block of one repository method, and closed in the finally clause, whether
\* the block returned or raised.
\* (ConnectionLeftAsIs is the variant without the finally clause.)
ConnectionLeftAsIs(inside) == inside
AfterWithConnection(inside) == "closed"

\* conn: the connection of the task's last repository call ("none": no call yet).
NoLeg == [pc |-> "none", existing |-> NoId, outcome |-> "", tmp |-> 0, conn |-> "none"]

LegSymbol(k) == active[k[1]].legs[k[2]]

\* update_prices, lines 56-88: read the active trades, zero the statistics and
\* submit one task per trade.  No active trade: return at once.
PassStart ==
    /\ sync.pc = "idle"
    /\ sync.passes < MaxPasses
    /\ DOMAIN active # {}
    /\ sync' = [sync EXCEPT !.pc = "running", !.passes = @ + 1]
    /\ tw' = [id \in DOMAIN active |-> [pc |-> "queued", tmp |-> 0]]
    /\ lw' = [k \in {<<id, sl>> : id \in DOMAIN active, sl \in SlotSet} |-> NoLeg]
    /\ stats' = ZeroStats
    /\ ev' = ZeroEvents
    /\ UNCHANGED <<now, active, completed, history, stored, ct, pat, rpt,
                   tracking, faults, snt, auxVars>>

\* ThreadPoolExecutor(max_workers): tasks start in submission order
\* (get_active_trades order), at most max_workers at a time.
Submitted == GetActiveTrades(active)
Position(id) == CHOOSE i \in 1..Len(Submitted) : Submitted[i].trade_id = id
Running == {id \in DOMAIN tw : tw[id].pc \notin {"queued", "done"}}

\* _process_trade_options, lines 127-148: no option symbols: warn and return;
\* otherwise one task per symbol, on a pool as wide as the symbol list.
TradeStart(id) ==
    /\ sync.pc = "running"
    /\ tw[id].pc = "queued"
    /\ Cardinality(Running) < sync.max_workers
    /\ \A j \in DOMAIN tw : Position(j) < Position(id) => tw[j].pc # "queued"
    /\ LET slots == GetTradeOptionSlots(active[id]) IN
       IF slots = << >>
       THEN /\ tw' = [tw EXCEPT ![id].pc = "done"]
            /\ lw' = lw
       ELSE /\ tw' = [tw EXCEPT ![id].pc = "legs"]
            /\ lw' = [k \in DOMAIN lw |->
                        IF k[1] = id /\ k[2] \in SeqRange(slots)
                        THEN [NoLeg EXCEPT !.pc = "lookup"] ELSE lw[k]]
    /\ UNCHANGED <<now, active, completed, history, stored, ct, pat, rpt,
                   tracking, sync, stats, ev, faults, snt, auxVars>>

\* A repository call raises sqlite3.Error; _process_single_option catches it
\* at line 251.
LegFault(k) ==
    /\ lw[k].pc \in {"lookup", "write", "mark"}
    /\ faults < MaxFaults
    /\ faults' = faults + 1
    /\ lw' = [lw EXCEPT ![k].pc = "err_r", ![k].conn = AfterWithConnection("open")]
    /\ ev' = [ev EXCEPT !.errors = @ + 1]
    /\ UNCHANGED <<now, active, completed, history, stored, ct, pat, rpt,
                   tracking, sync, tw, stats, snt, auxVars>>

\* Lines 179-183: existing = get_active_price_tracking(trade_id); a complete
\* record for today ends the task.
LegLookup(k) ==
    /\ lw[k].pc = "lookup"
    /\ \E e \in ActivePriceTracking(tracking, k[1], now) :
          lw' = [lw EXCEPT ![k].existing = e,
                           ![k].conn = AfterWithConnection("open"),
                           ![k].pc = IF e # NoId /\ tracking[e].is_complete
                                     THEN "done" ELSE "fetch"]
    /\ UNCHANGED <<now, active, completed, history, stored, ct, pat, rpt,
                   tracking, sync, tw, stats, ev, faults, snt, auxVars>>

\* Line 190: option_data = self.price_service.get_option_data(symbol).
LegFetch(k) ==
    /\ lw[k].pc = "fetch"
    /\ \E o \in ProviderOutcomes :
          /\ lw' = [lw EXCEPT ![k].outcome = o, ![k].pc = "chk_r"]
          /\ ev' = [ev EXCEPT !.options_checked = @ + 1,
                              !.provider_failures = @ + (IF o = "error" THEN 1 ELSE 0)]
    /\ UNCHANGED <<now, active, completed, history, stored, ct, pat, rpt,
                   tracking, sync, tw, stats, faults, snt, auxVars>>

\* The counter a task increments in the with block it is about to enter.
LegCounter(l) ==
    CASE l.pc \in {"chk_r", "chk_w"} -> "options_checked"
      [] l.pc \in {"rec_r", "rec_w"} ->
            IF l.existing # NoId THEN "records_updated" ELSE "records_created"
      [] l.pc \in {"cmp_r", "cmp_w"} -> "records_completed"
      [] OTHER -> "errors"

Entered(pc) ==
    CASE pc = "chk_r" -> "chk_w" [] pc = "rec_r" -> "rec_w"
      [] pc = "cmp_r" -> "cmp_w" [] pc = "err_r" -> "err_w" [] OTHER -> "tp_w"

\* Where a leg task goes when it leaves a with block: lines 201-207 (no data:
\* return), 229 (write), 242-245 (market closed and the record existed: mark),
\* 252-254 (the task ends in its except clause: "failed").
\* (AfterCriticalNoDataCheck is the variant without the return of line 207.)
AfterCriticalNoDataCheck(l) ==
    CASE l.pc = "chk_w" -> "write"
      [] l.pc = "rec_w" -> IF GetOptionData(l.outcome) = "closed" /\ l.existing # NoId
                           THEN "mark" ELSE "done"
      [] l.pc = "err_w" -> "failed"
      [] OTHER -> "done"
AfterCritical(l) ==
    CASE l.pc = "chk_w" -> IF GetOptionData(l.outcome) = "none" THEN "done" ELSE "write"
      [] l.pc = "rec_w" -> IF GetOptionData(l.outcome) = "closed" /\ l.existing # NoId
                           THEN "mark" ELSE "done"
      [] l.pc = "err_w" -> "failed"
      [] OTHER -> "done"

\* with self.stats_lock: acquire, read the counter.
LegAcquire(k) ==
    /\ lw[k].pc \in {"chk_r", "rec_r", "cmp_r", "err_r"}
    /\ StatsLockFree
    /\ lw' = [lw EXCEPT ![k].tmp = stats[LegCounter(lw[k])], ![k].pc = Entered(lw[k].pc)]
    /\ UNCHANGED <<now, active, completed, history, stored, ct, pat, rpt,
                   tracking, sync, tw, stats, ev, faults, snt, auxVars>>

\* stats[...] += 1: store the incremented value, release the lock.
LegRelease(k) ==
    /\ lw[k].pc \in {"chk_w", "rec_w", "cmp_w", "err_w"}
    /\ stats' = [stats EXCEPT ![LegCounter(lw[k])] = lw[k].tmp + 1]
    /\ lw' = [lw EXCEPT ![k].pc = AfterCritical(lw[k]), ![k].tmp = 0]
    /\ UNCHANGED <<now, active, completed, history, stored, ct, pat, rpt,
                   tracking, sync, tw, ev, faults, snt, auxVars>>

\* Lines 222-239: update the record found by the lookup, or create one.
LegWrite(k) ==
    /\ lw[k].pc = "write"
    /\ LET l == lw[k]
           data == GetOptionData(l.outcome)
       IN IF l.existing # NoId
          THEN /\ tracking' = UpdateOptionPrice(tracking, l.existing, LegSymbol(k), data, now)
               /\ ev' = [ev EXCEPT !.records_updated = @ + 1]
          ELSE /\ tracking' = CreateOptionPriceTracking(tracking, k[1], LegSymbol(k), data, now)
               /\ ev' = [ev EXCEPT !.records_created = @ + 1]
    /\ lw' = [lw EXCEPT ![k].pc = "rec_r", ![k].conn = AfterWithConnection("open")]
    /\ UNCHANGED <<now, active, completed, history, stored, ct, pat, rpt, sync,
                   tw, stats, faults, snt, auxVars>>

\* Lines 242-247: mark_tracking_complete(existing['tracking_id']).
LegMark(k) ==
    /\ lw[k].pc = "mark"
    /\ tracking' = MarkTrackingComplete(tracking, lw[k].existing)
    /\ ev' = [ev EXCEPT !.records_completed = @ + 1]
    /\ lw' = [lw EXCEPT ![k].pc = "cmp_r", ![k].conn = AfterWithConnection("open")]
    /\ UNCHANGED <<now, active, completed, history, stored, ct, pat, rpt, sync,
                   tw, stats, faults, snt, auxVars>>

LegsOf(id) == {k \in DOMAIN lw : k[1] = id /\ lw[k].pc # "none"}
\* (LegFinishedNormally is the variant that waits for a normal return only.)
LegFinishedNormally(pc) == pc = "done"
LegFinished(pc) == pc \in {"done", "failed"}

\* Lines 150-161: every option task has finished; count the trade.
TradeJoin(id) ==
    /\ tw[id].pc = "legs"
    /\ \A k \in LegsOf(id) : LegFinished(lw[k].pc)
    /\ tw' = [tw EXCEPT ![id].pc = "tp_r"]
    /\ ev' = [ev EXCEPT !.trades_processed = @ + 1]
    /\ UNCHANGED <<now, active, completed, history, stored, ct, pat, rpt,
                   tracking, sync, lw, stats, faults, snt, auxVars>>

TradeAcquire(id) ==
    /\ tw[id].pc = "tp_r"
    /\ StatsLockFree
    /\ tw' = [tw EXCEPT ![id].tmp = stats.trades_processed, ![id].pc = Entered(tw[id].pc)]
    /\ UNCHANGED <<now, active, completed, history, stored, ct, pat, rpt,
                   tracking, sync, lw, stats, ev, faults, snt, auxVars>>

TradeRelease(id) ==
    /\ tw[id].pc = "tp_w"
    /\ stats' = [stats EXCEPT !.trades_processed = tw[id].tmp + 1]
    /\ tw' = [tw EXCEPT ![id].pc = "done", ![id].tmp = 0]
    /\ UNCHANGED <<now, active, completed, history, stored, ct, pat, rpt,
                   tracking, sync, lw, ev, faults, snt, auxVars>>

\* Lines 91-115: every trade task has finished.
PassDone == sync.pc = "running" /\ \A id \in DOMAIN tw : tw[id].pc = "done"

\* The summary is logged and update_prices returns; the statistics and the
\* tasks are local to the call.
PassEnd ==
    /\ PassDone
    /\ sync' = [sync EXCEPT !.pc = "idle"]
    /\ tw' = << >>
    /\ lw' = << >>
    /\ stats' = ZeroStats
    /\ ev' = ZeroEvents
    /\ UNCHANGED <<now, active, completed, history, stored, ct, pat, rpt,
                   tracking, faults, snt, auxVars>>

\* The active trades a synchronization starts from: rows save_new_trade
\* accepts (it does not compare the populated slots with the trade_type).
Legs(sc, lc, sp, lp) ==
    [s \in SlotSet |-> CASE s = "short_call" -> sc [] s = "long_call" -> lc
                         [] s = "short_put" -> sp [] OTHER -> lp]

SyncTrade(id, legs) ==
    [trade_id |-> id, trade_type |-> "BULL_PUT", expiration_date |-> 1,
     status |-> "OPEN", net_credit |-> 1, num_contracts |-> 1, legs |-> legs]

SyncConfigs ==
    { (1 :> SyncTrade(1, PutPair)),
      (1 :> SyncTrade(1, Legs("", "", "A", ""))) @@ (2 :> SyncTrade(2, Legs("", "", "C", ""))),
      (1 :> SyncTrade(1, Legs("", "", "A", ""))) @@ (2 :> SyncTrade(2, Legs("", "", "", ""))),
      (1 :> SyncTrade(1, Legs("C", "", "", ""))) }

SyncInit ==
    /\ now = 0
    /\ active \in SyncConfigs
    /\ completed = << >>
    /\ history = << >>
    /\ stored = DOMAIN active
    /\ ct = CtIdle
    /\ pat = PatIdle
    /\ tracking = << >>
    /\ sync \in [pc : {"idle"}, passes : {0}, max_workers : 1..MaxWorkers]
    /\ tw = << >>
    /\ lw = << >>
    /\ stats = ZeroStats
    /\ ev = ZeroEvents
    /\ faults = 0
    /\ rpt = RptIdle
    /\ snt = SntIdle
    /\ corr = CorrIdle
    /\ scan = ScanIdle
    /\ pipe = PipeIdle
    /\ AppVarsInit

SyncNext ==
    \/ Tick
    \/ PassStart
    \/ \E id \in DOMAIN tw : TradeStart(id)
    \/ \E k \in DOMAIN lw : LegFault(k)
    \/ \E k \in DOMAIN lw : LegLookup(k)
    \/ \E k \in DOMAIN lw : LegFetch(k)
    \/ \E k \in DOMAIN lw : LegAcquire(k)
    \/ \E k \in DOMAIN lw : LegRelease(k)
    \/ \E k \in DOMAIN lw : LegWrite(k)
    \/ \E k \in DOMAIN lw : LegMark(k)
    \/ \E id \in DOMAIN tw : TradeJoin(id)
    \/ \E id \in DOMAIN tw : TradeAcquire(id)
    \/ \E id \in DOMAIN tw : TradeRelease(id)
    \/ PassEnd

SpecSync == SyncInit /\ [][SyncNext]_vars

\* The steps of the pool threads.  Every submitted task is run by a thread of
\* its executor, and a call that returns or raises lets its thread go on: as
\* long as some task can take a step, one is taken.
TaskStep ==
    \/ \E id \in DOMAIN tw : TradeStart(id) \/ TradeJoin(id) \/ TradeAcquire(id)
                                \/ TradeRelease(id)
    \/ \E k \in DOMAIN lw : LegLookup(k) \/ LegFetch(k) \/ LegAcquire(k)
                              \/ LegRelease(k) \/ LegWrite(k) \/ LegMark(k)

SpecSyncFair == SyncInit /\ [][SyncNext]_vars /\ WF_vars(TaskStep)

\* ---------------------------------------------------------------- report
\* Python's None and a value that is present.  Money is in cents; the floats
\* of the code are taken as exact numbers.
None == << >>
Some(v) == <<v>>

\* datetime.strptime(expiration_str, '%Y-%m-%d') on what SELECT returns for
\* the DATE column: text in that format parses; other text raises ValueError;
\* text of digits only is stored as an integer (NUMERIC affinity) and strptime
\* raises TypeError on it.
ParseDate(s) ==
    CASE s = "2025-01-17" -> "ok"
      [] s = "20250117" -> "TypeError"
      [] OTHER -> "ValueError"

\* leg_definitions: per trade_type the (symbol field, is_short) pairs, in order.
LegDefinitions ==
    [BULL_PUT |-> <<[slot |-> "short_put", is_short |-> TRUE],
                    [slot |-> "long_put", is_short |-> FALSE]>>,
     BEAR_CALL |-> <<[slot |-> "short_call", is_short |-> TRUE],
                     [slot |-> "long_call", is_short |-> FALSE]>>,
     IRON_CONDOR |-> <<[slot |-> "short_put", is_short |-> TRUE],
                       [slot |-> "long_put", is_short |-> FALSE],
                       [slot |-> "short_call", is_short |-> TRUE],
                       [slot |-> "long_call", is_short |-> FALSE]>>,
     BULL_CALL |-> <<[slot |-> "short_call", is_short |-> TRUE],
                     [slot |-> "long_call", is_short |-> FALSE]>>,
     BEAR_PUT |-> <<[slot |-> "short_put", is_short |-> TRUE],
                    [slot |-> "long_put", is_short |-> FALSE]>>]

\* Lines 333-373: the price of one leg from the latest stored snapshot of its
\* symbol, and whether it had to be given up (missing_leg_data).
\* (PriceFromSnapshotLastFirst is the variant that looks at last before mark.)
PriceFromSnapshotLastFirst(d) ==
    IF d.last # None THEN [price |-> d.last[1], missing |-> FALSE]
    ELSE IF d.mark # None THEN [price |-> d.mark[1], missing |-> FALSE]
    ELSE [price |-> 0, missing |-> TRUE]
PriceFromSnapshot(d) ==
    IF d.mark # None THEN [price |-> d.mark[1], missing |-> FALSE]
    ELSE IF d.last # None THEN [price |-> d.last[1], missing |-> FALSE]
    ELSE IF d.bid # None /\ d.ask # None
         THEN [price |-> (d.bid[1] + d.ask[1]) \div 2, missing |-> FALSE]
    ELSE [price |-> 0, missing |-> TRUE]

CurrentLegPrice(rows, option_symbol) ==
    LET latest == GetLatestOptionPriceData(rows, option_symbol) IN
    IF latest = NoId THEN [price |-> 0, missing |-> TRUE]
    ELSE PriceFromSnapshot(rows[latest])

\* Lines 322-394, the loop over the leg definitions: a leg without symbol or
\* strike is passed over; every other leg becomes an OptionLeg.
RECURSIVE ProcessLegs(_, _, _, _)
ProcessLegs(trade_dict, rows, defs, i) ==
    IF i > Len(defs) THEN << >>
    ELSE LET option_symbol == trade_dict.legs[defs[i].slot]
             strike_price == trade_dict.strikes[defs[i].slot]
             p == CurrentLegPrice(rows, option_symbol)
         IN (IF option_symbol = NoSymbol \/ strike_price = None THEN << >>
             ELSE <<[symbol |-> option_symbol, is_short |-> defs[i].is_short,
                     strike |-> strike_price[1], current_price |-> p.price,
                     missing |-> p.missing]>>)
            \o ProcessLegs(trade_dict, rows, defs, i + 1)

\* Lines 392-393: current_legs_value += current_leg_price * multiplier.
RECURSIVE CurrentLegsValue(_)
CurrentLegsValue(legs) ==
    IF legs = << >> THEN 0
    ELSE (IF Head(legs).is_short THEN -1 ELSE 1) * Head(legs).current_price
         + CurrentLegsValue(Tail(legs))

\* Line 407.
\* (PnlPerContractCreditLessValue is the variant credit minus legs value.)
PnlPerContractCreditLessValue(net_credit, legs_value) == net_credit - legs_value
PnlPerContract(net_credit, legs_value) == -net_credit + legs_value

Abs(x) == IF x < 0 THEN -x ELSE x

\* A quotient of the code, kept exact as numerator and denominator; den = 0
\* stands for float('inf').
Ratio(n, d) == [num |-> n, den |-> d]
Zero == Ratio(0, 1)
Inf == Ratio(1, 0)

\* The OptionLeg made at lines 376-387: missing_leg_data is a local variable of
\* _process_trade and no field of the leg.
OptionLeg(l) ==
    [symbol |-> l.symbol, is_short |-> l.is_short, strike |-> l.strike,
     current_price |-> l.current_price]

\* _process_trade: "none" is the None it returns for a trade it passes over,
\* "raise" an exception that leaves it; src is the trade_id the record was
\* made from (TradeData itself carries no trade_id).  missing_leg_data is
\* written to the log (lines 400-401) and is no part of the TradeData.
NoData == [outcome |-> "none", data |-> << >>]

ProcessTrade(trade_dict, rows) ==
    IF \/ trade_dict.trade_type = ""
       \/ trade_dict.expiration_date = ""
       \/ trade_dict.symbol = ""
       \/ trade_dict.net_credit = None
    THEN NoData
    ELSE IF ParseDate(trade_dict.expiration_date) = "ValueError" THEN NoData
    ELSE IF ParseDate(trade_dict.expiration_date) = "TypeError"
         THEN [outcome |-> "raise", data |-> << >>]
    ELSE IF trade_dict.trade_type \notin DOMAIN LegDefinitions THEN NoData
    ELSE LET legs == ProcessLegs(trade_dict, rows, LegDefinitions[trade_dict.trade_type], 1)
             c == trade_dict.net_credit[1]
             n == trade_dict.num_contracts
             v == CurrentLegsValue(legs)
             total_pnl == PnlPerContract(c, v) * n * 100
             denominator == Abs(c) * n * 100
         IN IF legs = << >> THEN NoData
            ELSE [outcome |-> "data",
                  missing_leg_data |-> \E j \in DOMAIN legs : legs[j].missing,
                  data |-> [src |-> trade_dict.trade_id,
                            symbol |-> trade_dict.symbol,
                            strategy_type |-> trade_dict.trade_type,
                            entry_credit |-> c * n * 100,
                            current_value |-> (-v) * n * 100,
                            pnl |-> total_pnl,
                            pnl_percent |-> IF denominator # 0
                                            THEN Ratio(total_pnl * 100, denominator)
                                            ELSE Zero,
                            legs |-> [j \in DOMAIN legs |-> OptionLeg(legs[j])]]]

\* _process_completed_trade: any exception inside it is caught at line 463 and
\* None is returned.
ProcessCompletedTrade(trade_dict) ==
    IF ParseDate(trade_dict.expiration_date) # "ok" THEN NoData
    ELSE [outcome |-> "data",
          data |-> [src |-> trade_dict.trade_id,
                    symbol |-> trade_dict.symbol,
                    strategy_type |-> trade_dict.trade_type,
                    entry_credit |-> trade_dict.entry_credit,
                    actual_profit_loss |-> trade_dict.actual_profit_loss,
                    profit_loss_percent |->
                        IF trade_dict.entry_credit # 0
                        THEN Ratio(trade_dict.actual_profit_loss * 100,
                                   Abs(trade_dict.entry_credit))
                        ELSE Zero]]

\* _process_strategy, lines 139-146 and 149-156: the try / except Exception
\* around one trade turns an exception into a trade that is passed over.
\* (AfterNoTryExcept is the variant without the handler.)
AfterNoTryExcept(outcome) == outcome
AfterTryExcept(outcome) == IF outcome = "raise" THEN "none" ELSE outcome

RECURSIVE SumInts(_)
SumInts(q) == IF q = << >> THEN 0 ELSE Head(q) + SumInts(Tail(q))

MinOf(S) == CHOOSE m \in S : \A x \in S : m <= x

Pnls(trades) == [i \in 1..Len(trades) |-> trades[i].pnl]
ProfitLosses(completed_trades) ==
    [i \in 1..Len(completed_trades) |-> completed_trades[i].actual_profit_loss]

\* AnalyticsService.calculate_risk_metrics; the greeks are sums of fields that
\* _process_trade leaves None, i.e. 0.
AccountSize == 5000000
CalculateRiskMetrics(trades, completed_trades) ==
    LET total_risk == SumInts([i \in 1..Len(trades) |-> Abs(trades[i].current_value)])
        all_pnl == SeqRange(Pnls(trades)) \cup SeqRange(ProfitLosses(completed_trades))
    IN [total_delta |-> 0, total_theta |-> 0, total_gamma |-> 0, total_vega |-> 0,
        position_size_pct |-> Ratio(total_risk * 100, AccountSize),
        max_loss |-> IF all_pnl = {} THEN 0 ELSE MinOf(all_pnl)]

\* AnalyticsService.calculate_performance_metrics (the hold time, the periodic
\* sums and the Sharpe ratio, which are 0 or empty without completed trades,
\* are left out).
CalculatePerformanceMetrics(trades, completed_trades) ==
    LET pl == ProfitLosses(completed_trades)
        winning_completed == SelectSeq(pl, LAMBDA x : x > 0)
        losing_trades == SelectSeq(pl, LAMBDA x : x <= 0)
        winning_active == SelectSeq(Pnls(trades), LAMBDA x : x > 0)
        total_considered_trades == Len(completed_trades) + Len(trades)
        gross_profit == SumInts(winning_completed)
        gross_loss == Abs(SumInts(losing_trades))
    IN [win_rate |-> IF total_considered_trades > 0
                     THEN Ratio((Len(winning_completed) + Len(winning_active)) * 100,
                                total_considered_trades)
                     ELSE Zero,
        profit_factor |-> IF gross_loss # 0 THEN Ratio(gross_profit, gross_loss) ELSE Inf,
        avg_winner_size |-> IF winning_completed # << >>
                            THEN Ratio(gross_profit, Len(winning_completed)) ELSE Zero,
        avg_loser_size |-> IF losing_trades # << >>
                           THEN Ratio(gross_loss, Len(losing_trades)) ELSE Zero,
        largest_winner |-> IF winning_completed = << >> THEN 0
                           ELSE -MinOf({-x : x \in SeqRange(winning_completed)}),
        largest_loser |-> IF losing_trades = << >> THEN 0
                          ELSE MinOf(SeqRange(losing_trades))]

\* Lines 115-124 and 162-171: the processed trades of one strategy.
OfStrategy(records, st) == SelectSeq(records, LAMBDA r : r.strategy_type = st)

StrategyData(trades, completed_trades) ==
    [st \in {trades[i].strategy_type : i \in 1..Len(trades)}
            \cup {completed_trades[i].strategy_type : i \in 1..Len(completed_trades)} |->
        [trades |-> OfStrategy(trades, st),
         completed_trades |-> OfStrategy(completed_trades, st),
         active_count |-> Len(OfStrategy(trades, st)),
         total_pnl |-> SumInts(Pnls(OfStrategy(trades, st)))
                       + SumInts(ProfitLosses(OfStrategy(completed_trades, st)))]]

\* collect_data, lines 35-89: the ReportData built from the processed trades.
CollectedReport(trades, completed_trades) ==
    LET total_pnl == SumInts(Pnls(trades)) + SumInts(ProfitLosses(completed_trades))
        risk == CalculateRiskMetrics(trades, completed_trades)
        performance == CalculatePerformanceMetrics(trades, completed_trades)
    IN [total_pnl |-> total_pnl,
        total_return |-> Ratio(total_pnl * 100, AccountSize),
        active_trades |-> Len(trades),
        completed_trades |-> Len(completed_trades),
        unique_underlyings |->
            Cardinality({trades[i].symbol : i \in 1..Len(trades)})
            + Cardinality({completed_trades[i].symbol : i \in 1..Len(completed_trades)}),
        win_rate |-> performance.win_rate,
        avg_pnl_per_trade |-> performance.avg_winner_size,
        max_loss |-> risk.max_loss,
        strategies |-> StrategyData(trades, completed_trades),
        portfolio_risk_metrics |-> risk,
        portfolio_performance |-> performance]

\* _create_empty_report
CreateEmptyReport ==
    [total_pnl |-> 0, total_return |-> Zero, active_trades |-> 0, completed_trades |-> 0,
     unique_underlyings |-> 0, win_rate |-> Zero, avg_pnl_per_trade |-> Zero,
     max_loss |-> 0, strategies |-> << >>,
     portfolio_risk_metrics |-> CalculateRiskMetrics(<< >>, << >>),
     portfolio_performance |-> CalculatePerformanceMetrics(<< >>, << >>)]

\* The rows of a table as a list.  get_active_trades orders by expiration_date
\* and get_trade_history by close_date; the lists are taken in trade_id order
\* here, the report being made of sums, counts, minima and per-strategy lists.
RECURSIVE RowsInIdOrder(_)
RowsInIdOrder(tbl) ==
    IF DOMAIN tbl = {} THEN << >>
    ELSE LET m == MaxOf(DOMAIN tbl) IN
         Append(RowsInIdOrder([i \in DOMAIN tbl \ {m} |-> tbl[i]]), tbl[m])

\* collect_data, lines 26-32: read both tables; a failure of either read is
\* caught and the empty report returned ("returned_empty", the return of line
\* 32; "returned" is the one of line 63).
RptRead ==
    /\ rpt.pc = "idle"
    /\ \/ rpt' = [RptIdle EXCEPT !.pc = "returned_empty", !.report = CreateEmptyReport]
       \/ rpt' = [RptIdle EXCEPT !.pc = "running",
                                 !.active_todo = RowsInIdOrder(active),
                                 !.completed_todo = RowsInIdOrder(completed)]
    /\ UNCHANGED <<now, active, completed, history, stored, ct, pat, syncVars,
                   snt, auxVars>>

\* _process_strategy, lines 139-146: one active trade.  An exception the
\* handler does not take leaves collect_data ("raised").
RptTrade ==
    /\ rpt.pc = "running"
    /\ rpt.active_todo # << >>
    /\ LET r == ProcessTrade(Head(rpt.active_todo), tracking)
           o == AfterTryExcept(r.outcome)
       IN rpt' = CASE o = "data" -> [rpt EXCEPT !.active_todo = Tail(@),
                                                !.trades = Append(@, r.data)]
                   [] o = "none" -> [rpt EXCEPT !.active_todo = Tail(@)]
                   [] OTHER -> [rpt EXCEPT !.pc = "raised"]
    /\ UNCHANGED <<now, active, completed, history, stored, ct, pat, syncVars,
                   snt, auxVars>>

\* _process_strategy, lines 149-156: one completed trade.
RptCompleted ==
    /\ rpt.pc = "running"
    /\ rpt.active_todo = << >>
    /\ rpt.completed_todo # << >>
    /\ LET r == ProcessCompletedTrade(Head(rpt.completed_todo))
           o == AfterTryExcept(r.outcome)
       IN rpt' = CASE o = "data" -> [rpt EXCEPT !.completed_todo = Tail(@),
                                                !.completed_trades = Append(@, r.data)]
                   [] o = "none" -> [rpt EXCEPT !.completed_todo = Tail(@)]
                   [] OTHER -> [rpt EXCEPT !.pc = "raised"]
    /\ UNCHANGED <<now, active, completed, history, stored, ct, pat, syncVars,
                   snt, auxVars>>

\* collect_data, lines 38-89: the aggregates, and the return.
RptAggregate ==
    /\ rpt.pc = "running"
    /\ rpt.active_todo = << >>
    /\ rpt.completed_todo = << >>
    /\ rpt' = [rpt EXCEPT !.pc = "returned",
                          !.report = CollectedReport(rpt.trades, rpt.completed_trades)]
    /\ UNCHANGED <<now, active, completed, history, stored, ct, pat, syncVars,
                   snt, auxVars>>

\* What the report is run on.  Snapshots of option A with every combination
\* of mark, last, bid and ask present or NULL, after an older row of A;
\* snapshots of B, C and D with a mark.  (bid + ask is even in every snapshot,
\* so that the midpoint is a whole number of cents.)
Snapshot(sym, mark, last, bid, ask) ==
    [option_symbol |-> sym, mark |-> mark, last |-> last, bid |-> bid, ask |-> ask]

SnapshotsOfA ==
    {<< >>} \cup
    {<<Snapshot("A", Some(99), None, None, None), Snapshot("A", m, l, b, a)>> :
        m \in {None, Some(30)}, l \in {None, Some(32)},
        b \in {None, Some(28)}, a \in {None, Some(30)}}

SnapshotsOfB == {<< >>, <<Snapshot("B", Some(5), None, None, None)>>}

SnapshotsOfOthers ==
    <<Snapshot("C", Some(40), None, None, None), Snapshot("D", Some(10), None, None, None)>>

Strikes(sc, lc, sp, lp) ==
    [s \in SlotSet |-> CASE s = "short_call" -> sc [] s = "long_call" -> lc
                         [] s = "short_put" -> sp [] OTHER -> lp]

\* A BULL_PUT row as save_new_trade stores it, and rows that differ from it
\* in one column.
ReportTrade ==
    [trade_id |-> 1, trade_type |-> "BULL_PUT", symbol |-> "SPY",
     expiration_date |-> "2025-01-17", net_credit |-> Some(125), num_contracts |-> 1,
     legs |-> PutPair, strikes |-> Strikes(None, None, Some(100), Some(95))]

ReportTradeVariants ==
    { ReportTrade,
      [ReportTrade EXCEPT !.num_contracts = 2],
      [ReportTrade EXCEPT !.symbol = ""],
      [ReportTrade EXCEPT !.expiration_date = "01/17/2025"],
      [ReportTrade EXCEPT !.expiration_date = "20250117"],
      [ReportTrade EXCEPT !.legs = [PutPair EXCEPT !["long_put"] = NoSymbol]],
      [ReportTrade EXCEPT !.strikes = Strikes(None, None, Some(100), None)],
      [ReportTrade EXCEPT !.legs = [s \in SlotSet |-> NoSymbol]] }

OtherReportTrade ==
    [trade_id |-> 2, trade_type |-> "BEAR_CALL", symbol |-> "QQQ",
     expiration_date |-> "2025-01-17", net_credit |-> Some(200), num_contracts |-> 1,
     legs |-> CallPair, strikes |-> Strikes(Some(400), Some(405), None, None)]

ReportCompleted(id, expiration_date, pnl) ==
    [trade_id |-> id, trade_type |-> "BULL_PUT", symbol |-> "IWM",
     expiration_date |-> expiration_date, entry_credit |-> 100,
     actual_profit_loss |-> pnl]

ReportCompletedTables ==
    { << >>,
      (3 :> ReportCompleted(3, "2025-01-17", 5000)),
      (3 :> ReportCompleted(3, "2025-01-17", -3000)),
      (3 :> ReportCompleted(3, "2025-01-17", 5000))
          @@ (4 :> ReportCompleted(4, "01/17/2025", -3000)) }

ReportInit ==
    /\ now = 0
    /\ \E t \in ReportTradeVariants : active = (1 :> t) @@ (2 :> OtherReportTrade)
    /\ completed \in ReportCompletedTables
    /\ history = << >>
    /\ stored = DOMAIN active \cup DOMAIN completed
    /\ ct = CtIdle
    /\ pat = PatIdle
    /\ \E a \in SnapshotsOfA, b \in SnapshotsOfB : tracking = a \o b \o SnapshotsOfOthers
    /\ sync = [pc |-> "idle", passes |-> 0, max_workers |-> 1]
    /\ tw = << >>
    /\ lw = << >>
    /\ stats = ZeroStats
    /\ ev = ZeroEvents
    /\ faults = 0
    /\ rpt = RptIdle
    /\ snt = SntIdle
    /\ corr = CorrIdle
    /\ scan = ScanIdle
    /\ pipe = PipeIdle
    /\ AppVarsInit

ReportNext == RptRead \/ RptTrade \/ RptCompleted \/ RptAggregate

SpecReport == ReportInit /\ [][ReportNext]_vars

\* ----------------------------------------------------- correlation matrix
\* Every variable of the repository, the passes and the report at its value
\* after construction.
RestInit ==
    /\ now = 0
    /\ active = << >>
    /\ completed = << >>
    /\ history = << >>
    /\ stored = {}
    /\ ct = CtIdle
    /\ pat = PatIdle
    /\ tracking = << >>
    /\ sync = [pc |-> "idle", passes |-> 0, max_workers |-> 1]
    /\ tw = << >>
    /\ lw = << >>
    /\ stats = ZeroStats
    /\ ev = ZeroEvents
    /\ faults = 0
    /\ rpt = RptIdle
    /\ snt = SntIdle

CorrSymbols == {"SPY", "QQQ"}
\* pnl_percent values of the trades handed to the analytics; a correlation
\* does not change when every value is multiplied by the same factor, so
\* small integers stand for the percentages.
CorrReturns == {-1, 0, 2}

\* The trades of a symbol in list order (lines 164-165) and their returns
\* (lines 181-182).
RECURSIVE ReturnsOf(_, _)
ReturnsOf(trades, symbol) ==
    IF trades = << >> THEN << >>
    ELSE (IF Head(trades).symbol = symbol THEN <<Head(trades).pnl_percent>> ELSE << >>)
         \o ReturnsOf(Tail(trades), symbol)

\* r - mean, times len(returns): n * r - sum(returns).
Deviations(returns) ==
    LET total == SumInts(returns) IN
    [i \in 1..Len(returns) |-> Len(returns) * returns[i] - total]

\* sum((r - mean) ** 2), times len(returns) ** 2.
Variance(returns) ==
    LET d == Deviations(returns) IN SumInts([i \in 1..Len(d) |-> d[i] * d[i]])

\* sum over zip(returns1, returns2): the shorter list decides the length.
Covariance(returns1, returns2) ==
    LET d1 == Deviations(returns1)
        d2 == Deviations(returns2)
        m == IF Len(d1) < Len(d2) THEN Len(d1) ELSE Len(d2)
    IN SumInts([i \in 1..m |-> d1[i] * d2[i]])

\* A correlation, kept exact: num / sqrt(sq).
Root(n, q) == [num |-> n, sq |-> q]

\* max(min(correlation, 1), -1)
Clamp(c) ==
    IF c.num * c.num <= c.sq THEN c
    ELSE IF c.num > 0 THEN Root(1, 1) ELSE Root(-1, 1)

\* _calculate_correlation, lines 174-202.  The factors len(returns) cancel in
\* covariance / sqrt(variance1 * variance2).
CalculateCorrelation(returns1, returns2) ==
    IF returns1 = << >> \/ returns2 = << >> THEN Root(0, 1)
    ELSE IF Variance(returns1) = 0 \/ Variance(returns2) = 0 THEN Root(0, 1)
    ELSE Clamp(Root(Covariance(returns1, returns2),
                    Variance(returns1) * Variance(returns2)))

\* matrix[a][b] = v on a defaultdict(dict).
SetEntry(matrix, a, b, v) ==
    LET row == IF a \in DOMAIN matrix THEN matrix[a] ELSE << >> IN
    (a :> ((b :> v) @@ row)) @@ matrix

\* (StorePairOneWay is the variant that stores matrix[symbol1][symbol2] only.)
StorePairOneWay(matrix, a, b, v) == SetEntry(matrix, a, b, v)
\* Lines 169-170.
StorePair(matrix, a, b, v) == SetEntry(SetEntry(matrix, a, b, v), b, a, v)

\* Lines 162-170: for i, symbol1 in enumerate(symbols): for symbol2 in
\* symbols[i:], from position (i, j) on.
RECURSIVE FillMatrix(_, _, _, _, _)
FillMatrix(trades, symbols, i, j, matrix) ==
    IF i > Len(symbols) THEN matrix
    ELSE IF j > Len(symbols) THEN FillMatrix(trades, symbols, i + 1, i + 1, matrix)
    ELSE LET returns1 == ReturnsOf(trades, symbols[i])
             returns2 == ReturnsOf(trades, symbols[j])
         IN FillMatrix(trades, symbols, i, j + 1,
                IF returns1 # << >> /\ returns2 # << >>
                THEN StorePair(matrix, symbols[i], symbols[j],
                               CalculateCorrelation(returns1, returns2))
                ELSE matrix)

\* list({trade.symbol for trade in active_trades}): the symbols in any order.
SymbolLists(trades) ==
    LET syms == {trades[i].symbol : i \in 1..Len(trades)} IN
    {q \in UNION {[1..n -> syms] : n \in {Cardinality(syms)}} :
        \A i, j \in 1..Len(q) : i # j => q[i] # q[j]}

\* calculate_correlation_matrix(active_trades), lines 154-172.
CalculateCorrelationMatrix ==
    /\ corr.pc = "idle"
    /\ \E symbols \in SymbolLists(corr.active_trades) :
          corr' = [corr EXCEPT !.pc = "returned",
                               !.matrix = FillMatrix(corr.active_trades, symbols, 1, 1, << >>)]
    /\ UNCHANGED <<now, active, completed, history, stored, ct, pat, syncVars,
                   rpt, snt, scan, pipe, appVars>>

CorrTrades ==
    UNION {[1..n -> [symbol : CorrSymbols, pnl_percent : CorrReturns]] : n \in 0..MaxTrades}

CorrInit ==
    /\ RestInit
    /\ corr \in [pc : {"idle"}, active_trades : CorrTrades, matrix : {<< >>}]
    /\ scan = ScanIdle
    /\ pipe = PipeIdle
    /\ AppVarsInit

CorrNext == CalculateCorrelationMatrix

SpecCorr == CorrInit /\ [][CorrNext]_vars

\* ------------------------------------------------------------- scanner
ScanUnchanged ==
    UNCHANGED <<now, active, completed, history, stored, ct, pat, syncVars, rpt,
                snt, corr, pipe, appVars>>

\* start(), lines 54-64: the configuration is logged, the loop is reached.
ScanStart ==
    /\ scan.pc = "idle"
    /\ scan' = [scan EXCEPT !.pc = "test"]
    /\ ScanUnchanged

\* Line 66: while not self.stop_event.is_set().
ScanTest ==
    /\ scan.pc = "test"
    /\ scan.stop_event \/ scan.cycles < MaxCycles
    /\ scan' = [scan EXCEPT !.pc = IF scan.stop_event THEN "returned" ELSE "enter"]
    /\ ScanUnchanged

\* Line 68: self._run_scan_cycle() is called.
ScanCycleBegin ==
    /\ scan.pc = "enter"
    /\ scan' = [scan EXCEPT !.pc = "list",
                            !.cycles = @ + 1,
                            !.after_stop = @ + (IF scan.stop_event THEN 1 ELSE 0)]
    /\ ScanUnchanged

\* _run_scan_cycle, lines 89-96: list_scans() returns the scans (none: return)
\* or raises, which start() catches at line 72.
ScanListScans ==
    /\ scan.pc = "list"
    /\ \/ \E n \in 0..MaxScans : scan' = [scan EXCEPT !.pc = "cycle", !.todo = n]
       \/ scan' = [scan EXCEPT !.pc = "except"]
    /\ ScanUnchanged

\* Lines 102-114: one scan of the cycle is skipped as cached, executed, or
\* fails with its exception logged; the loop does not look at stop_event.
ScanExecute ==
    /\ scan.pc = "cycle"
    /\ scan.todo > 0
    /\ scan' = [scan EXCEPT !.todo = @ - 1]
    /\ ScanUnchanged

\* _run_scan_cycle returns.
ScanCycleEnd ==
    /\ scan.pc = "cycle"
    /\ scan.todo = 0
    /\ scan' = [scan EXCEPT !.pc = "after"]
    /\ ScanUnchanged

\* Lines 69-71 and 74-76: if not self.stop_event.is_set(): wait(...).
ScanAfter ==
    /\ scan.pc \in {"after", "except"}
    /\ scan' = IF scan.stop_event THEN [scan EXCEPT !.pc = "test"]
               ELSE [scan EXCEPT !.pc = "wait", !.left = MaxInterval]
    /\ ScanUnchanged

\* (SleepOver is the variant that waits with time.sleep.)
SleepOver(sc) == sc.left = 0
\* Event.wait(timeout) returns when the event is set or the timeout is over.
WaitOver(sc) == sc.stop_event \/ sc.left = 0

\* Time passes for a start() that waits.
ScanWaitTick ==
    /\ scan.pc = "wait"
    /\ ~WaitOver(scan)
    /\ scan' = [scan EXCEPT !.left = @ - 1]
    /\ ScanUnchanged

\* wait() returns; the loop goes back to line 66.
ScanWaitReturn ==
    /\ scan.pc = "wait"
    /\ WaitOver(scan)
    /\ scan' = [scan EXCEPT !.pc = "test", !.left = 0]
    /\ ScanUnchanged

\* stop(), lines 78-81, called from another thread or a signal handler.
ScanStop ==
    /\ ~scan.stop_event
    /\ scan' = [scan EXCEPT !.stop_event = TRUE]
    /\ ScanUnchanged

ScanInit ==
    /\ RestInit
    /\ corr = CorrIdle
    /\ scan = ScanIdle
    /\ pipe = PipeIdle
    /\ AppVarsInit

\* The steps of the thread that runs start().
ScanStep ==
    \/ ScanTest
    \/ ScanCycleBegin
    \/ ScanListScans
    \/ ScanExecute
    \/ ScanCycleEnd
    \/ ScanAfter
    \/ ScanWaitTick
    \/ ScanWaitReturn

ScanNext ==
    \/ ScanStart
    \/ ScanStep
    \/ ScanStop

\* The thread that runs start() goes on, and the calls a cycle makes return.
SpecScan == ScanInit /\ [][ScanNext]_vars /\ WF_vars(ScanStep)

\* ------------------------------------------------------------ pipeline
\* Scan items of the Option Samurai API as the pipeline reads them: name,
\* underlying (the ticker), stock_last (<< >>: the key is absent),
\* expiration_date (a list), strike (a list), max_profit.  Money in cents.
Ticker(name) ==
    CASE name = "SPDR S&P 500" -> "SPY" [] name = "Apple Inc" -> "AAPL" [] OTHER -> ""

ScanItems ==
    {[name |-> n, underlying |-> Ticker(n), stock_last |-> p, expiration_date |-> e,
      strike |-> k, max_profit |-> m] :
        n \in {"SPDR S&P 500", "Apple Inc", ""},
        p \in {<< >>, <<45000>>},
        e \in {<< >>, <<"2025-01-17">>},
        k \in {<<400, 410>>, <<410, 400>>, <<390, 400, 420, 430>>, <<400>>},
        m \in {0, 100}}

\* What calculate_net_credit_or_debit gives for a trade: it raises (a leg has
\* no quote; << >>), or returns short bid - long ask, a debit or a credit.
TradierOutcomes == {<< >>, <<-50>>, <<80>>}

\* _determine_strategy, lines 182-210; "ValueError" stands for the raise.
DetermineStrategy(item) ==
    IF item.strike = << >> THEN "ValueError"
    ELSE IF Len(item.strike) = 4 THEN "IRON_CONDOR"
    ELSE IF Len(item.strike) = 2
         THEN (IF item.strike[1] < item.strike[2] THEN "BULL_PUT" ELSE "BEAR_CALL")
    ELSE "ValueError"

\* (IsDuplicateTradeByTicker is the variant that looks the ticker up.)
IsDuplicateTradeByTicker(tbl, item) ==
    /\ item.name # ""
    /\ DetermineStrategy(item) # "ValueError"
    /\ \E id \in DOMAIN tbl : /\ tbl[id].symbol = item.underlying
                              /\ tbl[id].trade_type = DetermineStrategy(item)
\* _is_duplicate_trade, lines 156-180.
IsDuplicateTrade(tbl, item) ==
    /\ item.name # ""
    /\ DetermineStrategy(item) # "ValueError"
    /\ \E id \in DOMAIN tbl : /\ tbl[id].symbol = item.name
                              /\ tbl[id].trade_type = DetermineStrategy(item)

\* _build_option_symbol, lines 443-462.
BuildOptionSymbol(ticker, expiration, strike, option_type) ==
    <<ticker, expiration, option_type, strike * 1000>>

\* _map_bull_put_strikes, _map_bear_call_strikes, _map_iron_condor_strikes
\* (lines 323-373): the strikes by position.
MapStrikes(strategy, ticker, expiration, strikes) ==
    LET sym(i, ty) == Some(BuildOptionSymbol(ticker, expiration, strikes[i], ty))
        none == [short_put |-> None, long_put |-> None,
                 short_put_symbol |-> None, long_put_symbol |-> None,
                 short_call |-> None, long_call |-> None,
                 short_call_symbol |-> None, long_call_symbol |-> None]
    IN CASE strategy = "BULL_PUT" ->
              [none EXCEPT !.short_put = Some(strikes[1]), !.long_put = Some(strikes[2]),
                           !.short_put_symbol = sym(1, "P"), !.long_put_symbol = sym(2, "P")]
         [] strategy = "BEAR_CALL" ->
              [none EXCEPT !.short_call = Some(strikes[1]), !.long_call = Some(strikes[2]),
                           !.short_call_symbol = sym(1, "C"), !.long_call_symbol = sym(2, "C")]
         [] OTHER ->
              [none EXCEPT !.short_put = Some(strikes[1]), !.long_put = Some(strikes[2]),
                           !.short_call = Some(strikes[3]), !.long_call = Some(strikes[4]),
                           !.short_put_symbol = sym(1, "P"), !.long_put_symbol = sym(2, "P"),
                           !.short_call_symbol = sym(3, "C"), !.long_call_symbol = sym(4, "C")]

\* float(api_data.get('stock_last', 0))
StockLast(item) == IF item.stock_last = << >> THEN 0 ELSE item.stock_last[1]

\* _transform_trade_data raises ValueError: no name or ticker (line 229), no
\* expiration date (lines 237-249), no strategy for the strikes (lines 274-280).
TransformRaises(item) ==
    \/ item.name = "" \/ item.underlying = ""
    \/ item.expiration_date = << >>
    \/ DetermineStrategy(item) = "ValueError"

\* _transform_trade_data, lines 212-321, when it does not raise.  quote is
\* what the price service gives when the pipeline has one.
TransformTradeData(item, price_service, quote) ==
    LET strategy == DetermineStrategy(item)
        expiration == item.expiration_date[1]
        tradier == price_service /\ quote # << >>
    IN [symbol |-> item.name,
        ticker |-> item.underlying,
        underlying_price |-> StockLast(item),
        expiration_date |-> expiration,
        theoretical_credit |-> item.max_profit,
        actual_credit |-> IF tradier THEN quote ELSE None,
        net_credit |-> IF tradier THEN quote[1] ELSE item.max_profit,
        entry_price_source |-> IF tradier THEN "tradier" ELSE "optionsamurai",
        num_contracts |-> 1,
        trade_type |-> strategy,
        strikes |-> MapStrikes(strategy, item.underlying, expiration, item.strike)]

\* The row save_new_trade inserts (lines 256-275): the columns of the INSERT,
\* entry_date = CURRENT_TIMESTAMP, status by default OPEN.
NewActiveRow(id, d, t) ==
    [trade_id |-> id, symbol |-> d.symbol, underlying_price |-> d.underlying_price,
     trade_type |-> d.trade_type, entry_date |-> Some(t),
     expiration_date |-> d.expiration_date,
     short_put |-> d.strikes.short_put, long_put |-> d.strikes.long_put,
     short_put_symbol |-> d.strikes.short_put_symbol,
     long_put_symbol |-> d.strikes.long_put_symbol,
     short_call |-> d.strikes.short_call, long_call |-> d.strikes.long_call,
     short_call_symbol |-> d.strikes.short_call_symbol,
     long_call_symbol |-> d.strikes.long_call_symbol,
     net_credit |-> d.net_credit, num_contracts |-> d.num_contracts, status |-> "OPEN"]

\* process_scan_results, lines 106-126: the call starts on a result of n
\* items; no items: return [] at once.
PipeStart ==
    /\ pipe.pc \in {"idle", "returned"}
    /\ \E n \in 0..MaxItems :
          pipe' = [pipe EXCEPT !.pc = IF n = 0 THEN "returned" ELSE "loop",
                               !.remaining = n,
                               !.stored_trades = << >>, !.built = << >>, !.last = ""]
    /\ UNCHANGED <<now, active, completed, history, stored, ct, pat, syncVars,
                   rpt, snt, corr, scan, appVars>>

\* Lines 128-148: one item of the loop.  A duplicate is skipped; otherwise the
\* item is transformed and saved and the new id appended; any exception
\* (ValueError of the transformation, sqlite3.IntegrityError of a CHECK) is
\* logged and the loop goes on.
PipeItem(item, quote) ==
    /\ pipe.pc = "loop"
    /\ pipe.remaining > 0
    /\ LET d == TransformTradeData(item, pipe.price_service, quote)
           id == NextRowId(active)
       IN IF IsDuplicateTrade(active, item)
          THEN /\ pipe' = [pipe EXCEPT !.remaining = @ - 1, !.last = "duplicate"]
               /\ UNCHANGED <<active, stored>>
          ELSE IF TransformRaises(item) \/ ~ActiveChecksPass(d)
          THEN /\ pipe' = [pipe EXCEPT !.remaining = @ - 1, !.last = "error"]
               /\ UNCHANGED <<active, stored>>
          ELSE /\ id <= MaxId
               /\ active' = active @@ (id :> NewActiveRow(id, d, now))
               /\ stored' = stored \cup {id}
               /\ pipe' = [pipe EXCEPT !.remaining = @ - 1, !.last = "stored",
                                       !.stored_trades = Append(@, id),
                                       !.built = Append(@, item)]
    /\ UNCHANGED <<now, completed, history, ct, pat, syncVars, rpt, snt, corr, scan, appVars>>

\* Lines 150-154: the loop is over, stored_trades is returned.
PipeReturn ==
    /\ pipe.pc = "loop"
    /\ pipe.remaining = 0
    /\ pipe' = [pipe EXCEPT !.pc = "returned"]
    /\ UNCHANGED <<now, active, completed, history, stored, ct, pat, syncVars,
                   rpt, snt, corr, scan, appVars>>

\* DataPipeline(db_manager, price_service): with or without a price service.
PipeInit ==
    /\ RestInit
    /\ corr = CorrIdle
    /\ scan = ScanIdle
    /\ pipe \in {[PipeIdle EXCEPT !.price_service = b] : b \in BOOLEAN}
    /\ AppVarsInit

PipeNext ==
    \/ PipeStart
    \/ \E item \in ScanItems, quote \in TradierOutcomes : PipeItem(item, quote)
    \/ PipeReturn

SpecPipe == PipeInit /\ [][PipeNext]_vars

\* ------------------------------------------------------------- claims
StatusRank(st) == CASE st = "OPEN" -> 1 [] st = "CLOSING" -> 2 [] st = "EXPIRED" -> 3
                    [] OTHER -> 0

\* C1: every trade id save_new_trade has ever returned is in exactly one of
\* active_trades and completed_trades, never in both and never in neither.
C1_ExactlyOneStore ==
    \A id \in stored : (id \in DOMAIN active) # (id \in DOMAIN completed)

\* C2: between the INSERT into completed_trades and the commit of
\* complete_trade, and when the call has failed at such a point, the persisted
\* state is the one before the call: the trade is in active_trades, unchanged,
\* and not in completed_trades.
C2_UncommittedMigrationInvisible ==
    (\/ ct.pc \in {"inserted", "deleted"}
     \/ (ct.pc = "failed" /\ ct.at \in {"inserted", "deleted"}))
    => /\ ct.trade.trade_id \in DOMAIN active
       /\ active[ct.trade.trade_id] = ct.trade
       /\ ct.trade.trade_id \notin DOMAIN completed

\* C2 witness: complete_trade has failed after its INSERT and before its DELETE.
C2_Witness == ct.pc = "failed" /\ ct.at = "inserted"

\* C3: while process_active_trades handles a trade past expiration no reader
\* sees it in active_trades with status EXPIRED, and when the pass ends every
\* such trade is in completed_trades, with exit_type EXPIRED and exit_debit 0,
\* and no longer in active_trades.
C3_ExpiredMigratesAtomically ==
    /\ pat.pc = "expired" =>
         ~(/\ Head(pat.todo).trade_id \in DOMAIN active
           /\ active[Head(pat.todo).trade_id].status = "EXPIRED")
    /\ (pat.pc = "loop" /\ pat.todo = << >>) =>
         \A id \in pat.found_expired :
            /\ id \notin DOMAIN active
            /\ id \in DOMAIN completed
            /\ completed[id].exit_type = "EXPIRED"
            /\ completed[id].exit_debit = 0

\* C4: the status of an active trade never moves backward
\* (CLOSING->OPEN, EXPIRED->CLOSING, EXPIRED->OPEN).
C4_StatusNeverMovesBackward ==
    [][\A id \in DOMAIN active \cap DOMAIN active' :
          StatusRank(active'[id].status) >= StatusRank(active[id].status)]_vars
\* The populated leg slots of all active trades (L of the statistics claims).
PopulatedLegs == {k \in DOMAIN lw : LegSymbol(k) # NoSymbol}

HasRow(rows, trade_id, symbol, complete) ==
    \E i \in 1..Len(rows) : /\ rows[i].trade_id = trade_id
                            /\ rows[i].option_symbol = symbol
                            /\ (complete => rows[i].is_complete)

\* C5: option_price_tracking holds at most one row per
\* (trade_id, tracking_date, option_symbol).
C5_OneRowPerKey ==
    \A i, j \in 1..Len(tracking) :
        (/\ tracking[i].trade_id = tracking[j].trade_id
         /\ tracking[i].tracking_date = tracking[j].tracking_date
         /\ tracking[i].option_symbol = tracking[j].option_symbol) => i = j

\* C6 as claimed: when a pass is over, options_checked equals the number of
\* populated legs of the active trades.
C6_OptionsCheckedIsLegCount ==
    PassDone => stats.options_checked = Cardinality(PopulatedLegs)

\* C6 as amended: when a pass is over, every populated leg has been taken up
\* by exactly one task, which has finished; options_checked equals the number
\* of those legs whose snapshot lookup did not raise, and each leg whose
\* lookup raised is counted in errors.
C6_OptionsCheckedIsLegsLookedUp ==
    PassDone =>
        LET called == {k \in PopulatedLegs : lw[k].outcome # ""} IN
        /\ \A k \in DOMAIN lw : (k \in PopulatedLegs) <=> LegFinished(lw[k].pc)
        /\ stats.options_checked = Cardinality(called)
        /\ \A k \in PopulatedLegs \ called : lw[k].pc = "failed"
        /\ stats.errors >= Cardinality(PopulatedLegs \ called)

\* C6 witness: a pass over two trades is over, both legs counted, on the
\* two-worker pool.
C6_Witness ==
    /\ PassDone
    /\ sync.max_workers = 2
    /\ Cardinality(PopulatedLegs) = 2
    /\ Cardinality(DOMAIN tw) = 2
    /\ stats.options_checked = 2

\* C7: when the quote provider has failed for exactly one leg of a pass and no
\* repository call has raised, errors is 1 at the end of the pass and every leg
\* the provider answered has a snapshot.
C7_ProviderFailureCounted ==
    (PassDone /\ ev.provider_failures = 1 /\ ev.errors = 0) =>
        /\ stats.errors = 1
        /\ \A k \in PopulatedLegs :
              lw[k].outcome \in {"open", "closed"} =>
                  HasRow(tracking, k[1], LegSymbol(k), FALSE)

\* C8: when a pass is over, every counter of the statistics equals the number
\* of the events it counts.
C8_CountersMatchEvents ==
    PassDone => \A c \in DOMAIN stats : stats[c] = ev[c]

\* C8 witness: a pass is over in which two leg tasks of one trade ran, a
\* repository call raised and a record was written.
C8_Witness ==
    /\ PassDone
    /\ stats.options_checked = 2
    /\ stats.errors = 1
    /\ stats.trades_processed = 1
    /\ stats.records_created + stats.records_updated >= 1

\* C9: a leg whose snapshot of today is complete is skipped: no provider call
\* is made for it, a complete row is not modified, and no row is created for
\* a key that has a complete row.
CompleteToday(rows, trade_id, symbol, t) ==
    \E i \in 1..Len(rows) : /\ rows[i].trade_id = trade_id
                            /\ rows[i].option_symbol = symbol
                            /\ rows[i].tracking_date = Today(t)
                            /\ rows[i].is_complete

C9_CompleteLegIsSkipped ==
    [][/\ \A k \in DOMAIN lw \cap DOMAIN lw' :
             (lw[k].pc = "fetch" /\ lw'[k].pc = "chk_r") =>
                 ~CompleteToday(tracking, k[1], LegSymbol(k), now)
       /\ \A i \in 1..Len(tracking) :
             tracking[i].is_complete => tracking'[i] = tracking[i]
       /\ Len(tracking') > Len(tracking) =>
             ~CompleteToday(tracking, tracking'[Len(tracking')].trade_id,
                            tracking'[Len(tracking')].option_symbol, now)]_vars

\* C10: a leg task that obtained a quote with the market closed and ended
\* without an error leaves a complete snapshot for its leg.
C10_ClosedMarketMarksComplete ==
    [][\A k \in DOMAIN lw \cap DOMAIN lw' :
          (lw[k].pc # "done" /\ lw'[k].pc = "done" /\ lw[k].outcome = "closed") =>
              HasRow(tracking', k[1], LegSymbol(k), TRUE)]_vars
\* C11: a pass that has started reaches its end, with every populated leg of
\* every active trade taken up and finished, whatever legs or trades failed.
C11_PassAttemptsEveryLegAndEnds ==
    (sync.pc = "running") ~>
        (PassDone /\ \A k \in PopulatedLegs : LegFinished(lw[k].pc))

\* C11 witness: a pass is over in which one leg task failed and another leg
\* task ran to its end.
C11_Witness ==
    /\ PassDone
    /\ \E k, j \in PopulatedLegs : lw[k].pc = "failed" /\ lw[j].pc = "done"
\* C12: process_active_trades sets a trade to EXPIRED exactly when its
\* expiration date is before today's date: a trade that expires today or later
\* is left alone, whatever the time of day.
C12_ExpiredIffBeforeToday ==
    [][(pat.pc = "loop" /\ pat.todo # << >> /\ pat' # pat) =>
          ((pat'.pc = "expired") <=> (Head(pat.todo).expiration_date < Today(now)))]_vars
\* The leg slots a strategy requires.
StrategySlots(trade_type) ==
    CASE trade_type = "BULL_PUT" -> {"short_put", "long_put"}
      [] trade_type = "BEAR_CALL" -> {"short_call", "long_call"}
      [] trade_type = "IRON_CONDOR" -> SlotSet
      [] OTHER -> {}

\* C13: every trade in active_trades has exactly the leg slots of its strategy
\* populated.
C13_SlotsMatchStrategy ==
    \A id \in DOMAIN active :
        {sl \in SlotSet : active[id].legs[sl] # NoSymbol}
            = StrategySlots(active[id].trade_type)
\* The entries of one trade_id form a chain: each starts from the status the
\* previous one ended in.
HistoryChained(h) ==
    \A i, j \in 1..Len(h) :
        (/\ i < j
         /\ h[i].trade_id = h[j].trade_id
         /\ \A m \in (i + 1)..(j - 1) : h[m].trade_id # h[i].trade_id)
        => h[j].old_status = h[i].new_status

\* The active trades whose status a step changes.
StatusChanged ==
    {id \in DOMAIN active \cap DOMAIN active' : active'[id].status # active[id].status}

\* A step that changes the status of a trade appends its (trade_id,
\* old_status, new_status) entry; any other step leaves the history alone.
StatusChangeLogged ==
    IF StatusChanged = {} THEN history' = history
    ELSE \E id \in StatusChanged :
            /\ StatusChanged = {id}
            /\ history' = Append(history, [trade_id |-> id,
                                           old_status |-> active[id].status,
                                           new_status |-> active'[id].status])

\* C14: every status change appends exactly one entry with old_status #
\* new_status, an update to the same status appends nothing, entries are never
\* modified or removed, and the entries of each trade form a chain.
C14_HistoryIsChainedLog ==
    [][StatusChangeLogged /\ HistoryChained(history')]_vars
\* The tracking_id of the record a leg task writes at lines 229-237.
WrittenId(k) == IF lw[k].existing # NoId THEN lw[k].existing ELSE Len(tracking')

\* C15: right after a snapshot of an option symbol is written (created or
\* updated), get_latest_option_price_data of that symbol returns the record
\* written, with the values written.
C15_LatestIsWhatWasWritten ==
    [][\A k \in DOMAIN lw \cap DOMAIN lw' :
          (lw[k].pc = "write" /\ lw'[k].pc = "rec_r") =>
              LET got == GetLatestOptionPriceData(tracking', LegSymbol(k)) IN
              /\ got = WrittenId(k)
              /\ tracking'[got].tracking_date = Today(now)
              /\ tracking'[got].is_market_closed = (GetOptionData(lw[k].outcome) = "closed")]_vars

\* The ladder in the words of the specification, on the row of the greatest
\* tracking_id among the rows of one option symbol.
LadderPrice(option_symbol) ==
    LET own == {i \in DOMAIN tracking : tracking[i].option_symbol = option_symbol} IN
    IF own = {} THEN 0
    ELSE LET d == tracking[MaxOf(own)] IN
         CASE d.mark # None -> d.mark[1]
           [] d.mark = None /\ d.last # None -> d.last[1]
           [] d.mark = None /\ d.last = None /\ d.bid # None /\ d.ask # None ->
                  (d.bid[1] + d.ask[1]) \div 2
           [] OTHER -> 0

\* C16: the price of every leg of every reported trade is the fallback ladder
\* on that leg's own latest snapshot (mark, else last, else the midpoint of bid
\* and ask when both are present, else 0), whatever the other legs hold.
C16_PriceIsLadderOnOwnSnapshot ==
    \A i \in DOMAIN rpt.trades : \A j \in DOMAIN rpt.trades[i].legs :
        rpt.trades[i].legs[j].current_price = LadderPrice(rpt.trades[i].legs[j].symbol)

\* A returned report in which one trade has leg A priced at the midpoint of
\* bid and ask and leg B priced at its mark.
C16_Witness ==
    /\ rpt.pc = "returned"
    /\ \E i \in DOMAIN rpt.trades : \E j, k \in DOMAIN rpt.trades[i].legs :
          /\ rpt.trades[i].legs[j].symbol = "A"
          /\ rpt.trades[i].legs[j].current_price = 29
          /\ rpt.trades[i].legs[k].symbol = "B"
          /\ rpt.trades[i].legs[k].current_price = 5

\* legsValue in the words of the specification: the sum over the legs of the
\* price, negated for a short leg.
LegsValue(legs) ==
    SumInts([j \in DOMAIN legs |->
                legs[j].current_price * (IF legs[j].is_short THEN -1 ELSE 1)])

Unresolved(rows, option_symbol) ==
    LET own == {i \in DOMAIN rows : rows[i].option_symbol = option_symbol} IN
    \/ own = {}
    \/ LET d == rows[MaxOf(own)] IN
       d.mark = None /\ d.last = None /\ (d.bid = None \/ d.ask = None)

\* The snapshots with, for every unresolved leg of the trade, a later snapshot
\* whose mark is 0: the same valuation, with nothing approximated.
RECURSIVE ResolvedAtZero(_, _, _)
ResolvedAtZero(rows, legs, j) ==
    IF j > Len(legs) THEN rows
    ELSE ResolvedAtZero(IF Unresolved(rows, legs[j].symbol)
                        THEN Append(rows, Snapshot(legs[j].symbol, Some(0), None, None, None))
                        ELSE rows,
                        legs, j + 1)

\* C18: an active trade with an unresolved leg is reported with that leg priced
\* 0, and its record is flagged as approximate, i.e. it is not the record the
\* trade would have with those legs resolved at a price of 0.
C18_UnresolvedLegFlagged ==
    rpt.pc = "returned" =>
        \A id \in DOMAIN active :
            LET t == active[id]
                slots == {sl \in SlotSet : t.legs[sl] # NoSymbol /\ t.strikes[sl] # None}
            IN (/\ ParseDate(t.expiration_date) = "ok" /\ t.symbol # ""
                /\ \E sl \in slots : Unresolved(tracking, t.legs[sl])
                /\ \A sl \in slots : \E d \in SeqRange(LegDefinitions[t.trade_type]) : d.slot = sl)
               => \E i \in DOMAIN rpt.trades :
                     LET td == rpt.trades[i] IN
                     /\ td.src = id
                     /\ \A j \in DOMAIN td.legs :
                           Unresolved(tracking, td.legs[j].symbol) => td.legs[j].current_price = 0
                     /\ td # ProcessTrade(t, ResolvedAtZero(tracking, td.legs, 1)).data

\* The trades that _process_trade and _process_completed_trade cannot make a
\* record of: an essential field or every leg missing, or a date that does
\* not parse.
OffendingActive(t) ==
    \/ t.trade_type = "" \/ t.symbol = "" \/ t.expiration_date = "" \/ t.net_credit = None
    \/ ParseDate(t.expiration_date) # "ok"
    \/ \A sl \in SlotSet : t.legs[sl] = NoSymbol \/ t.strikes[sl] = None

OffendingCompleted(t) == ParseDate(t.expiration_date) # "ok"

SoundActive == {id \in DOMAIN active : ~OffendingActive(active[id])}
SoundCompleted == {id \in DOMAIN completed : ~OffendingCompleted(completed[id])}

RECURSIVE SumOver(_, _)
SumOver(S, f) ==
    IF S = {} THEN 0
    ELSE LET x == CHOOSE y \in S : TRUE IN f[x] + SumOver(S \ {x}, f)

Sources(records) == {records[i].src : i \in DOMAIN records}

\* C19: collect_data does not raise because of a trade; the returned report
\* counts, sums and lists exactly the trades that have their fields and a date
\* that parses, each once, and none of the offending ones.
C19_OffendingTradeExcluded ==
    /\ rpt.pc # "raised"
    /\ rpt.pc = "returned" =>
        LET r == rpt.report
            pnl == [id \in SoundActive |-> ProcessTrade(active[id], tracking).data.pnl]
            apl == [id \in SoundCompleted |-> completed[id].actual_profit_loss]
        IN /\ r.active_trades = Cardinality(SoundActive)
           /\ r.completed_trades = Cardinality(SoundCompleted)
           /\ r.total_pnl = SumOver(SoundActive, pnl) + SumOver(SoundCompleted, apl)
           /\ r.max_loss = IF SoundActive \cup SoundCompleted = {} THEN 0
                           ELSE MinOf({pnl[id] : id \in SoundActive}
                                      \cup {apl[id] : id \in SoundCompleted})
           /\ \A id \in SoundActive : active[id].trade_type \in DOMAIN r.strategies
           /\ \A id \in SoundCompleted : completed[id].trade_type \in DOMAIN r.strategies
           /\ \A st \in DOMAIN r.strategies :
                 /\ Sources(r.strategies[st].trades)
                      = {id \in SoundActive : active[id].trade_type = st}
                 /\ Len(r.strategies[st].trades)
                      = Cardinality({id \in SoundActive : active[id].trade_type = st})
                 /\ Sources(r.strategies[st].completed_trades)
                      = {id \in SoundCompleted : completed[id].trade_type = st}
                 /\ Len(r.strategies[st].completed_trades)
                      = Cardinality({id \in SoundCompleted : completed[id].trade_type = st})

\* A returned report made while an active trade with a date that raises and a
\* completed trade with a date that does not parse were stored next to an
\* active and a completed trade that are reported.
C19_Witness ==
    /\ rpt.pc = "returned"
    /\ \E id \in DOMAIN active : ParseDate(active[id].expiration_date) = "TypeError"
    /\ \E id \in DOMAIN completed : OffendingCompleted(completed[id])
    /\ rpt.report.active_trades = 1
    /\ rpt.report.completed_trades = 1

\* A quotient that is the number 0.
IsZero(q) == q.num = 0 /\ q.den # 0

\* C20: when the read of the trades fails, collect_data returns the empty
\* report, in which every aggregate is zero, every field of the portfolio risk
\* and performance metrics included.
C20_EmptyReportAllZero ==
    rpt.pc = "returned_empty" =>
        LET r == rpt.report IN
        /\ r.total_pnl = 0 /\ IsZero(r.total_return)
        /\ r.active_trades = 0 /\ r.completed_trades = 0 /\ r.unique_underlyings = 0
        /\ IsZero(r.win_rate) /\ IsZero(r.avg_pnl_per_trade) /\ r.max_loss = 0
        /\ DOMAIN r.strategies = {}
        /\ r.portfolio_risk_metrics.total_delta = 0
        /\ r.portfolio_risk_metrics.total_theta = 0
        /\ r.portfolio_risk_metrics.total_gamma = 0
        /\ r.portfolio_risk_metrics.total_vega = 0
        /\ IsZero(r.portfolio_risk_metrics.position_size_pct)
        /\ r.portfolio_risk_metrics.max_loss = 0
        /\ IsZero(r.portfolio_performance.win_rate)
        /\ IsZero(r.portfolio_performance.avg_winner_size)
        /\ IsZero(r.portfolio_performance.avg_loser_size)
        /\ r.portfolio_performance.largest_winner = 0
        /\ r.portfolio_performance.largest_loser = 0
        /\ IsZero(r.portfolio_performance.profit_factor)

C29_TradeIdNeverReused ==
    [][\A id \in DOMAIN active' \ DOMAIN active :
          id \notin stored /\ id \notin DOMAIN completed]_vars

\* C30: under repeated process_active_trades passes, an active trade whose
\* expiration date has passed is eventually migrated: gone from active_trades
\* and present in completed_trades.
C30_ExpiredEventuallyMigrated ==
    \A id \in 1..MaxId :
        (id \in DOMAIN active /\ DaysToExpiry(active[id].expiration_date, now) < 0)
            ~> (id \notin DOMAIN active /\ id \in DOMAIN completed)

\* C23: while a task's provider call is in flight (the task stands at the
\* call of line 190) it is inside no with-stats_lock block and the connection
\* of its lookup is closed; a task reaches the provider call from the lookup
\* only and the write from the with block that follows the provider call
\* only, and every repository step leaves its connection closed.
C23_ProviderCallHoldsNothing ==
    [][\A k \in DOMAIN lw \cap DOMAIN lw' :
         /\ lw'[k].pc = "fetch" =>
                /\ ~InCritical(lw'[k].pc)
                /\ lw'[k].conn = "closed"
                /\ lw[k].pc \in {"lookup", "fetch"}
         /\ (lw'[k].pc = "write" /\ lw[k].pc # "write") =>
                /\ lw[k].pc = "chk_w"
                /\ lw[k].outcome \in ProviderOutcomes
         /\ (lw[k].pc \in {"lookup", "write", "mark"} /\ lw'[k].pc # lw[k].pc) =>
                lw'[k].conn = "closed"]_vars

\* A task waits for the provider with its lookup done, while another task of
\* the pass is inside a with-stats_lock block.
C23_Witness ==
    \E k, j \in DOMAIN lw :
        /\ lw[k].pc = "fetch" /\ lw[k].conn = "closed"
        /\ InCritical(lw[j].pc)

NoDataOutcomes == {"error", "absent"}

\* C24: every step of a task whose provider call returned no data leaves the
\* tracking records and the counters records_created, records_updated and
\* records_completed as they were, and the task returns after counting the
\* option as checked.
C24_NoDataNoEffect ==
    [][\A k \in DOMAIN lw \cap DOMAIN lw' :
         (lw'[k] # lw[k] /\ lw'[k].outcome \in NoDataOutcomes) =>
             /\ tracking' = tracking
             /\ stats'.records_created = stats.records_created
             /\ stats'.records_updated = stats.records_updated
             /\ stats'.records_completed = stats.records_completed
             /\ ev'.records_created = ev.records_created
             /\ ev'.records_updated = ev.records_updated
             /\ ev'.records_completed = ev.records_completed
             /\ lw'[k].pc \in {"chk_r", "chk_w", "done"}]_vars

\* A task has returned after a provider call without data, the option counted.
C24_Witness ==
    \E k \in DOMAIN lw :
        /\ lw[k].pc = "done"
        /\ lw[k].outcome \in NoDataOutcomes
        /\ stats.options_checked > 0
IsOne(c) == c.num > 0 /\ c.num * c.num = c.sq

\* C21: the matrix calculate_correlation_matrix returns is symmetric (an
\* entry for (a, b) comes with an equal entry for (b, a)) and every entry lies
\* in [-1, 1].
C21_SymmetricInUnitRange ==
    corr.pc = "returned" =>
        \A a \in DOMAIN corr.matrix : \A b \in DOMAIN corr.matrix[a] :
            /\ b \in DOMAIN corr.matrix
            /\ a \in DOMAIN corr.matrix[b]
            /\ corr.matrix[b][a] = corr.matrix[a][b]
            /\ corr.matrix[a][b].sq > 0
            /\ corr.matrix[a][b].num * corr.matrix[a][b].num <= corr.matrix[a][b].sq

\* Two symbols with lists of different length and a correlation that is
\* neither 0 nor 1 nor -1 between them.
C21_Witness ==
    /\ corr.pc = "returned"
    /\ Len(ReturnsOf(corr.active_trades, "SPY")) # Len(ReturnsOf(corr.active_trades, "QQQ"))
    /\ "SPY" \in DOMAIN corr.matrix
    /\ "QQQ" \in DOMAIN corr.matrix["SPY"]
    /\ corr.matrix["SPY"]["QQQ"].num # 0
    /\ ~IsOne(corr.matrix["SPY"]["QQQ"])
    /\ corr.matrix["SPY"]["QQQ"].num * corr.matrix["SPY"]["QQQ"].num
           < corr.matrix["SPY"]["QQQ"].sq

\* C22: every diagonal entry of the returned matrix is 1, also for a symbol
\* with a single trade or with trades of one and the same pnl_percent.
C22_DiagonalIsOne ==
    corr.pc = "returned" =>
        \A s \in DOMAIN corr.matrix :
            s \in DOMAIN corr.matrix[s] /\ IsOne(corr.matrix[s][s])
\* The cycle in progress is not interrupted: _run_scan_cycle is left when
\* every scan of the cycle was handled (or when list_scans raised).
CycleNotInterrupted ==
    [][(scan.pc = "cycle" /\ scan'.pc # "cycle") => scan.todo = 0]_vars

\* The wait between cycles ends early: once stop_event is set, the next step
\* of a waiting start() is the return of wait(), whatever is left of the
\* interval.
WaitEndsEarly ==
    [][(scan.pc = "wait" /\ scan.stop_event /\ scan' # scan) => scan'.pc = "test"]_vars

\* start() then returns.
StartReturnsAfterStop ==
    (scan.stop_event /\ scan.pc # "idle") ~> (scan.pc = "returned")

\* C26 as stated: no scan cycle begins once stop() has been called; the cycle
\* in progress finishes, the wait ends early and start() returns.
C26_NoCycleAfterStop ==
    /\ [][scan'.cycles # scan.cycles => ~scan.stop_event]_vars
    /\ CycleNotInterrupted
    /\ WaitEndsEarly
    /\ StartReturnsAfterStop

\* C26 amended: no scan cycle begins once start() has found stop_event set at
\* its loop test or after a cycle; a stop() that falls between the loop test
\* and the call of _run_scan_cycle lets that one cycle begin, so at most one
\* cycle begins after stop().  The cycle in progress finishes, the wait ends
\* early and start() returns.
C26_NoCycleAfterSignalObserved ==
    /\ [][/\ scan'.cycles # scan.cycles => scan.pc = "enter"
          /\ (scan.stop_event /\ scan.pc \in {"test", "after", "except", "wait"}) =>
                 scan'.pc \in {scan.pc, "test", "returned"}
          /\ scan'.after_stop <= 1]_vars
    /\ CycleNotInterrupted
    /\ WaitEndsEarly
    /\ StartReturnsAfterStop

\* start() has returned after stop(); it ran at least one cycle and began none
\* of them after stop().
C26_Witness ==
    /\ scan.pc = "returned"
    /\ scan.cycles > 0
    /\ scan.after_stop = 0
\* verify_trade_data: a field is set when the stored value is not NULL, not
\* empty and not 0 (if not trade_dict.get(field)).
FieldSet(v) == v # None /\ v # Some(0)

RequiredFieldsSet(row) ==
    /\ row.symbol # ""
    /\ row.underlying_price # 0
    /\ row.trade_type # ""
    /\ row.entry_date # None
    /\ row.expiration_date # ""
    /\ row.net_credit # 0

StrategyStrikesSet(row) ==
    /\ row.trade_type \in {"BULL_PUT", "IRON_CONDOR"} =>
           FieldSet(row.short_put) /\ FieldSet(row.long_put)
    /\ row.trade_type \in {"BEAR_CALL", "IRON_CONDOR"} =>
           FieldSet(row.short_call) /\ FieldSet(row.long_call)

StoredAsScanned(row, item) ==
    /\ row.symbol = item.name
    /\ row.underlying_price = StockLast(item)

\* C27: every trade id process_scan_results returns is a row of
\* active_trades with the required fields set, the strikes of its strategy
\* populated, and the symbol and underlying price of the scan item it was
\* built from.
C27_ReturnedTradesVerified ==
    pipe.pc = "returned" =>
        \A i \in 1..Len(pipe.stored_trades) :
            LET id == pipe.stored_trades[i] IN
            /\ id \in DOMAIN active
            /\ RequiredFieldsSet(active[id])
            /\ StrategyStrikesSet(active[id])
            /\ StoredAsScanned(active[id], pipe.built[i])

\* C28: no two rows of active_trades created by the pipeline have the same
\* symbol and the same strategy, and an item is skipped exactly when a row
\* with its symbol and strategy exists.
C28_OnePerSymbolAndStrategy ==
    [][/\ \A a, b \in DOMAIN active' :
             (active'[a].symbol = active'[b].symbol
                 /\ active'[a].trade_type = active'[b].trade_type) => a = b
       /\ (pipe'.last = "stored" /\ pipe'.stored_trades # pipe.stored_trades) =>
             LET row == active'[pipe'.stored_trades[Len(pipe'.stored_trades)]] IN
             \A a \in DOMAIN active :
                 ~(active[a].symbol = row.symbol /\ active[a].trade_type = row.trade_type)]_vars

\* An item was skipped as a duplicate while the same symbol is stored with
\* two strategies.
C28_Witness ==
    /\ pipe.last = "duplicate"
    /\ \E a, b \in DOMAIN active :
          /\ a # b
          /\ active[a].symbol = active[b].symbol
          /\ active[a].trade_type # active[b].trade_type
\* A step of a process_active_trades pass, or of the complete_trade it calls.
PassActs == pat' # pat \/ (ct.caller = "pat" /\ ct' # ct)

\* C31: a step of process_active_trades leaves every trade that is not
\* expired (days to expiry >= 0) as it is: its row of active_trades, status
\* included, is unchanged, no completed_trades row and no status-history
\* entry is written for it.
C31_UnexpiredUntouched ==
    [][PassActs =>
         \A id \in DOMAIN active :
             DaysToExpiry(active[id].expiration_date, now) >= 0 =>
                 /\ id \in DOMAIN active'
                 /\ active'[id] = active[id]
                 /\ id \in DOMAIN completed' => id \in DOMAIN completed
                 /\ \A i \in 1..Len(history') :
                        history'[i].trade_id = id => i <= Len(history)]_vars

\* A pass has valued a trade that is not expired after it found another one
\* expired.
C31_Witness ==
    /\ pat.pc = "loop"
    /\ pat.stats.active_trades > 0
    /\ pat.found_expired # {}
    /\ \E id \in DOMAIN active :
          /\ DaysToExpiry(active[id].expiration_date, now) >= 0
          /\ active[id].status \in {"OPEN", "CLOSING"}
\* C32: for a trade the pass found expired, complete_trade is handed
\* exit_debit 0 and actual_profit_loss = (net_credit - 0) x num_contracts x
\* 100, the dollar convention of the other valuations.
C32_ExpirationPnlInDollars ==
    [][(pat.pc = "expired" /\ pat' # pat) =>
          /\ ct'.pc = "selected"
          /\ ct'.caller = "pat"
          /\ ct'.exit.exit_debit = 0
          /\ ct'.exit.actual_profit_loss =
                 (Head(pat.todo).net_credit - 0) * Head(pat.todo).num_contracts * 100]_vars
\* C33: a step of a synchronization pass leaves the trade_id, tracking_date
\* and option_symbol of every option_price_tracking row as they were, and a
\* leg task updates only a row of its own option symbol.
C33_SnapshotKeepsIdentity ==
    [][/\ \A i \in 1..Len(tracking) :
             /\ i <= Len(tracking')
             /\ tracking'[i].trade_id = tracking[i].trade_id
             /\ tracking'[i].tracking_date = tracking[i].tracking_date
             /\ tracking'[i].option_symbol = tracking[i].option_symbol
       /\ \A k \in DOMAIN lw \cap DOMAIN lw' :
             (lw[k].pc = "write" /\ lw'[k].pc = "rec_r" /\ lw[k].existing # NoId) =>
                 tracking[lw[k].existing].option_symbol = LegSymbol(k)]_vars

\* ---------------------------------------------------------------------
\* The two valuations of an active trade: TradeManager._process_active_trade
\* (trade_manager.py) and ReportDataCollector._process_trade (collector.py),
\* applied to one trade record and one price per leg.

\* The net credits (negative: a debit), contract counts and leg prices tried.
ValCredits == {-150, 0, 125}
ValContracts == {1, 2}
ValPrices == {None, Some(10), Some(45)}

\* A row of active_trades as both routines read it: the table has no
\* spread_type column, all four slots carry a symbol and a strike.
ValTrades ==
    [trade_type : DOMAIN LegDefinitions, net_credit : ValCredits,
     num_contracts : ValContracts]

\* trade_manager.py lines 206-220: a leg whose price is None is passed over,
\* every other one adds its price, negated when short.
RECURSIVE ManagerLegsValue(_, _, _)
ManagerLegsValue(defs, prices, i) ==
    IF i > Len(defs) THEN 0
    ELSE (IF prices[defs[i].slot] = None THEN 0
          ELSE prices[defs[i].slot][1] * (IF defs[i].is_short THEN -1 ELSE 1))
         + ManagerLegsValue(defs, prices, i + 1)

\* collector.py lines 349-393: a leg without price counts with price 0.
RECURSIVE CollectorLegsValue(_, _, _)
CollectorLegsValue(defs, prices, i) ==
    IF i > Len(defs) THEN 0
    ELSE (IF prices[defs[i].slot] = None THEN 0 ELSE prices[defs[i].slot][1])
             * (IF defs[i].is_short THEN -1 ELSE 1)
         + CollectorLegsValue(defs, prices, i + 1)

\* trade_manager.py lines 237-240: trade.get('spread_type', 'CREDIT'); the key
\* is present only when the caller supplies it.
ManagerPnlPerContract(spread_type, net_entry_credit, current_legs_value) ==
    IF spread_type = "CREDIT"
    THEN net_entry_credit - (-current_legs_value)
    ELSE -Abs(net_entry_credit) - (-current_legs_value)

\* The spread_type the manager sees in a row read from active_trades.
SpreadTypeOf(trade) ==
    IF "spread_type" \in DOMAIN trade THEN trade.spread_type ELSE "CREDIT"

\* trade_manager.py lines 232-246.
ManagerValuation(trade, prices) ==
    LET v == ManagerLegsValue(LegDefinitions[trade.trade_type], prices, 1)
        pnl_per_contract ==
            ManagerPnlPerContract(SpreadTypeOf(trade), trade.net_credit, v)
        total_pnl == pnl_per_contract * trade.num_contracts * 100
    IN [pnl_per_contract |-> pnl_per_contract,
        total_pnl |-> total_pnl,
        pnl_percent |-> IF trade.net_credit # 0
                        THEN Ratio(total_pnl * 100,
                                   Abs(trade.net_credit) * trade.num_contracts * 100)
                        ELSE Zero]

\* collector.py lines 403-415.
CollectorValuation(trade, prices) ==
    LET v == CollectorLegsValue(LegDefinitions[trade.trade_type], prices, 1)
        pnl_per_contract == PnlPerContract(trade.net_credit, v)
        total_pnl == pnl_per_contract * trade.num_contracts * 100
        denominator == Abs(trade.net_credit) * trade.num_contracts * 100
    IN [pnl_per_contract |-> pnl_per_contract,
        total_pnl |-> total_pnl,
        pnl_percent |-> IF denominator # 0
                        THEN Ratio(total_pnl * 100, denominator)
                        ELSE Zero]

\* The trade record and the leg prices handed to both routines.
ValBegin(trade, prices) ==
    /\ val.pc = "idle"
    /\ val' = [pc |-> "input", trade |-> trade, prices |-> prices,
               manager |-> None, collector |-> None]
    /\ UNCHANGED <<now, active, completed, history, stored, ct, pat, syncVars,
                   rpt, snt, corr, scan, pipe, exs, app>>

\* _process_active_trade on the record.
ValProcessActiveTrade ==
    /\ val.pc = "input"
    /\ val.manager = None
    /\ val' = [val EXCEPT !.manager = Some(ManagerValuation(val.trade, val.prices))]
    /\ UNCHANGED <<now, active, completed, history, stored, ct, pat, syncVars,
                   rpt, snt, corr, scan, pipe, exs, app>>

\* _process_trade on the record.
ValProcessTrade ==
    /\ val.pc = "input"
    /\ val.collector = None
    /\ val' = [val EXCEPT !.collector = Some(CollectorValuation(val.trade, val.prices))]
    /\ UNCHANGED <<now, active, completed, history, stored, ct, pat, syncVars,
                   rpt, snt, corr, scan, pipe, exs, app>>

ValInit ==
    /\ RestInit
    /\ corr = CorrIdle
    /\ scan = ScanIdle
    /\ pipe = PipeIdle
    /\ AppVarsInit

ValNext ==
    \/ \E trade \in ValTrades, prices \in [SlotSet -> ValPrices] :
          ValBegin(trade, prices)
    \/ ValProcessActiveTrade
    \/ ValProcessTrade

SpecVal == ValInit /\ [][ValNext]_vars

\* C34: once both routines have valued the same trade record at the same
\* leg prices, their per-contract P&L, total P&L and P&L percent are equal.
C34_ValuationsAgree ==
    (val.pc = "input" /\ val.manager # None /\ val.collector # None) =>
        val.manager[1] = val.collector[1]

\* The populated slots of the slot table of the trade's strategy: the legs
\* collector.py lines 293-328 values.
ValuedSlots(trade) ==
    IF trade.trade_type \in DOMAIN LegDefinitions
    THEN {LegDefinitions[trade.trade_type][i].slot :
             i \in 1..Len(LegDefinitions[trade.trade_type])}
         \cap {sl \in SlotSet : trade.legs[sl] # NoSymbol}
    ELSE {}

\* C35: when the synchronization takes up a trade, the legs it resolves are
\* exactly the populated slots of the trade's strategy table; with none of
\* them populated the trade is done at once, with no leg task (so no
\* provider call), no snapshot written and no error counted.
C35_LegsAreStrategySlots ==
    [][\A id \in DOMAIN tw \cap DOMAIN tw' :
          (tw[id].pc = "queued" /\ tw'[id].pc # "queued") =>
              /\ {k[2] : k \in {l \in DOMAIN lw' : l[1] = id /\ lw'[l].pc = "lookup"}}
                     = ValuedSlots(active[id])
              /\ ValuedSlots(active[id]) = {} =>
                     /\ tw'[id].pc = "done"
                     /\ tracking' = tracking
                     /\ stats' = stats
                     /\ ev' = ev]_vars

\* C36: complete_trade for an id that is not in active_trades ends in an
\* error and changes neither active_trades nor completed_trades; a row of
\* completed_trades, once written, is never replaced or removed, so a second
\* complete_trade for the trade leaves the one row with the values of the
\* first call.
C36_UnknownIdRaisesAndKeepsStores ==
    [][/\ (ct.pc = "idle" /\ ct'.pc # "idle" /\ ct'.trade.trade_id \notin DOMAIN active) =>
             /\ ct'.pc = "failed"
             /\ active' = active
             /\ completed' = completed
       /\ (ct.pc = "failed" /\ ct.at = "select") =>
             /\ ct'.pc \in {"failed", "idle"}
             /\ active' = active
             /\ completed' = completed
       /\ \A id \in DOMAIN completed :
             id \in DOMAIN completed' /\ completed'[id] = completed[id]]_vars

\* The second complete_trade for a trade already completed has raised.
C36_Witness ==
    /\ ct.pc = "failed" /\ ct.at = "select"
    /\ ct.trade.trade_id \in DOMAIN completed
    /\ ct.trade.trade_id \notin DOMAIN active

\* The trades a pass has counted so far.
Counted(p) == p.stats.active_trades + p.stats.expired_trades + p.stats.errors

\* C37: every trade process_active_trades is done with is counted in exactly
\* one of active_trades, expired_trades and errors, a trade that raised
\* included, and the pass goes on with the next one; it returns only when
\* none is left, with total_trades = active_trades + expired_trades + errors.
C37_EveryTradeCountedOnce ==
    [][(pat.pc # "idle" /\ pat' # pat) =>
          /\ pat'.pc # "idle" =>
                /\ pat'.stats.total_trades = pat.stats.total_trades
                /\ \/ pat'.todo = pat.todo /\ Counted(pat') = Counted(pat)
                   \/ /\ pat'.todo = Tail(pat.todo)
                      /\ Counted(pat') = Counted(pat) + 1
                      /\ \E f \in {"active_trades", "expired_trades", "errors"} :
                            pat'.stats = [pat.stats EXCEPT ![f] = @ + 1]
                /\ Counted(pat') + Len(pat'.todo) = pat'.stats.total_trades
          /\ pat'.pc = "idle" =>
                /\ pat.todo = << >>
                /\ pat.stats.total_trades = Counted(pat)]_vars

\* A pass is about to return after one trade raised and a later one was
\* valued.
C37_Witness ==
    /\ pat.pc = "loop" /\ pat.todo = << >>
    /\ pat.stats.errors > 0 /\ pat.stats.active_trades > 0
    /\ pat.stats.total_trades = 2

\* ---------------------------------------------------------------------
\* ScanManager._execute_scan (scanner.py lines 125-161) for one scan_id, called
\* from the loop of lines 101-114 cycle after cycle.

\* The largest config.max_retries tried (0: MAX_RETRIES=0 in the environment),
\* config.cache_duration, and the number of cycles the clock runs.
MaxRetries == 3
CacheDuration == 1
MaxExsTime == 3

\* What optionsamurai.run_scan does on one call.
RunScanOutcomes == {"results", "empty", "raise"}

\* What _process_scan_results does with non-empty results: it raises (results
\* that are no dictionary, a maxProfit that is no number) or returns the list
\* of valid trades, which may be empty.
ProcessOutcomes == {<<"raise">>, <<"valid", 0>>, <<"valid", 1>>}

\* Lines 116-123: no last scan time, or one older than the cache duration.
ShouldUpdateScan(last_scan, t) ==
    IF last_scan = None THEN TRUE ELSE t - last_scan[1] > CacheDuration

\* Lines 152-159, the except clause of one attempt.
\* (AfterFailedAttemptRetriesOnceMore is the variant that compares with <=.)
AfterFailedAttemptRetriesOnceMore(e) ==
    LET retries == e.retries + 1 IN
    [e EXCEPT !.retries = retries,
              !.pc = IF retries <= e.max_retries THEN "sleep" ELSE "raised"]
AfterFailedAttempt(e) ==
    LET retries == e.retries + 1 IN
    [e EXCEPT !.retries = retries,
              !.pc = IF retries < e.max_retries THEN "sleep" ELSE "raised"]

\* Lines 129-130: while retries < max_retries; past the loop the function
\* returns None.
LoopTest(e) ==
    [e EXCEPT !.pc = IF e.retries < e.max_retries THEN "try" ELSE "returned"]

\* Lines 105-112 and 125-130: the scan is skipped while its cache is fresh;
\* otherwise _execute_scan starts with retries = 0.
ExsBegin ==
    /\ exs.pc = "idle"
    /\ exs' = IF ShouldUpdateScan(exs.last_scan_time, exs.t)
              THEN LoopTest([exs EXCEPT !.retries = 0, !.calls = 0,
                                        !.before = [cache |-> exs.cache,
                                                    last_scan_time |-> exs.last_scan_time]])
              ELSE [exs EXCEPT !.pc = "skipped"]
    /\ UNCHANGED <<now, active, completed, history, stored, ct, pat, syncVars,
                   rpt, snt, corr, scan, pipe, val, app>>

\* Lines 131-135 and 152-159: one call of run_scan.
ExsRunScan(outcome) ==
    /\ exs.pc = "try"
    /\ LET called == [exs EXCEPT !.calls = @ + 1, !.last_outcome = outcome] IN
       exs' = CASE outcome = "raise" -> AfterFailedAttempt(called)
                [] outcome = "empty" -> [called EXCEPT !.pc = "returned"]
                [] OTHER -> [called EXCEPT !.pc = "process"]
    /\ UNCHANGED <<now, active, completed, history, stored, ct, pat, syncVars,
                   rpt, snt, corr, scan, pipe, val, app>>

\* Lines 137-151 and 152-159: the results are validated and the cache and the
\* last scan time are set.
ExsProcess(outcome) ==
    /\ exs.pc = "process"
    /\ exs' = IF outcome[1] = "raise"
              THEN AfterFailedAttempt([exs EXCEPT !.last_outcome = "process_raise"])
              ELSE [exs EXCEPT !.pc = "returned",
                               !.cache = Some(outcome[2]),
                               !.last_scan_time = Some(exs.t)]
    /\ UNCHANGED <<now, active, completed, history, stored, ct, pat, syncVars,
                   rpt, snt, corr, scan, pipe, val, app>>

\* Line 157: time.sleep(retry_delay), then the loop test again.
ExsSleep ==
    /\ exs.pc = "sleep"
    /\ exs' = LoopTest(exs)
    /\ UNCHANGED <<now, active, completed, history, stored, ct, pat, syncVars,
                   rpt, snt, corr, scan, pipe, val, app>>

\* The next cycle of the run loop: the call is over (an exception of it was
\* logged at line 113) and time has passed.
ExsCycle ==
    /\ exs.pc \in {"returned", "raised", "skipped"}
    /\ exs.t < MaxExsTime
    /\ exs' = [exs EXCEPT !.pc = "idle", !.t = @ + 1]
    /\ UNCHANGED <<now, active, completed, history, stored, ct, pat, syncVars,
                   rpt, snt, corr, scan, pipe, val, app>>

ExsInit ==
    /\ RestInit
    /\ corr = CorrIdle
    /\ scan = ScanIdle
    /\ pipe = PipeIdle
    /\ val = ValIdle
    /\ app = AppIdle
    /\ exs \in [pc : {"idle"}, max_retries : 0..MaxRetries, retries : {0},
                calls : {0}, last_outcome : {""}, t : {0},
                cache : {None}, last_scan_time : {None},
                before : {[cache |-> None, last_scan_time |-> None]}]

ExsStep == (\E o \in RunScanOutcomes : ExsRunScan(o))
               \/ (\E o \in ProcessOutcomes : ExsProcess(o)) \/ ExsSleep

ExsNext == ExsBegin \/ ExsStep \/ ExsCycle

\* run_scan and time.sleep return: a call in progress goes on.
SpecExs == ExsInit /\ [][ExsNext]_vars /\ WF_vars(ExsStep)

\* The cache and the last scan time are as the call found them.
ExsUntouched ==
    /\ exs.cache = exs.before.cache
    /\ exs.last_scan_time = exs.before.last_scan_time

\* The call has set the cache and the last scan time.
ExsUpdated == exs.cache # None /\ exs.last_scan_time = Some(exs.t)

ExsInProgress == exs.pc \in {"try", "process", "sleep"}

\* C38 as stated: at most max_retries calls of run_scan; the call ends either
\* at its first successful attempt, with the cache and the last scan time
\* set, or by re-raising after max_retries failed attempts, with both
\* untouched; and it always ends.
C38_SuccessUpdatesOrRaises ==
    /\ [](/\ exs.calls <= exs.max_retries
          /\ ExsInProgress => ExsUntouched
          /\ exs.pc = "returned" => ExsUpdated
          /\ exs.pc = "raised" => (exs.retries = exs.max_retries /\ ExsUntouched))
    /\ (ExsInProgress ~> exs.pc \in {"returned", "raised"})

\* C38, amended: at most max_retries calls of run_scan, and the call always
\* ends.  It returns at the first attempt in which run_scan does not raise:
\* with empty results at once and with the cache and the last scan time
\* untouched, otherwise after the validation with both set, and they are set
\* at no other point.  An attempt that raises (in run_scan or in the
\* validation) is repeated, and after max_retries >= 1 such attempts in a row
\* the error is re-raised with both untouched.  With max_retries = 0 no attempt
\* is made and the call returns without error.
C38_BoundedRetries ==
    /\ [](/\ exs.calls <= exs.max_retries
          /\ ExsInProgress => ExsUntouched
          /\ exs.pc = "returned" =>
                \/ exs.last_outcome = "results" /\ ExsUpdated
                \/ exs.last_outcome = "empty" /\ ExsUntouched
                \/ exs.max_retries = 0 /\ exs.calls = 0 /\ ExsUntouched
          /\ exs.pc = "raised" =>
                /\ exs.max_retries >= 1
                /\ exs.retries = exs.max_retries
                /\ exs.calls = exs.max_retries
                /\ exs.last_outcome \in {"raise", "process_raise"}
                /\ ExsUntouched)
    /\ (ExsInProgress ~> exs.pc \in {"returned", "raised"})

\* The error is re-raised after MaxRetries failed attempts, over a cache an
\* earlier call had filled.
C38_Witness ==
    /\ exs.pc = "raised" /\ exs.max_retries = MaxRetries
    /\ exs.calls = MaxRetries /\ exs.cache # None

\* ---------------------------------------------------------------------
\* Application (main.py): start() and the handler of SIGINT and SIGTERM.

\* The methods class PriceTrackingService defines (price_tracking.py 26-278).
PriceTrackingServiceMethods ==
    {"__init__", "update_prices", "_process_trade_options",
     "_process_single_option", "_get_trade_option_symbols"}

\* The steps of start() in order (main.py lines 92-132): the database, the
\* price service, the price tracking, the Option Samurai test, the scanner
\* with pipeline and reporting service, the scan cycle, the price update.
StartSteps ==
    <<"database", "price_service", "price_tracking", "connection_test",
      "components", "scan_cycle", "update_prices">>

Signals == {"SIGINT", "SIGTERM"}

\* The application as __init__ leaves it (lines 51-59): no component yet,
\* the handlers registered.
AppNew(token) ==
    [pc |-> "starting", done |-> 0, tradier_token |-> token,
     price_tracking |-> FALSE, reporting_service |-> FALSE,
     signal |-> "", at_signal |-> 0, trail |-> << >>, exit |-> None]

\* One step of start() ends; lines 109-113 set price_tracking, line 122
\* reporting_service.
AppStartStep ==
    /\ app.pc = "starting"
    /\ app.done < Len(StartSteps)
    /\ LET step == StartSteps[app.done + 1] IN
       app' = [app EXCEPT !.done = @ + 1,
                          !.price_tracking = @ \/ step = "price_tracking",
                          !.reporting_service = @ \/ step = "components",
                          !.pc = IF app.done + 1 = Len(StartSteps)
                                 THEN "started" ELSE "starting"]
    /\ UNCHANGED <<now, active, completed, history, stored, ct, pat, syncVars,
                   rpt, snt, corr, scan, pipe, val, exs>>

\* Lines 134-137: a step of start() raises; shutdown() and sys.exit(1).
AppStartFails ==
    /\ app.pc = "starting"
    /\ app.done < Len(StartSteps)
    /\ StartSteps[app.done + 1] \notin {"price_service", "connection_test"}
    /\ app' = [app EXCEPT !.pc = "exited", !.exit = Some(1)]
    /\ UNCHANGED <<now, active, completed, history, stored, ct, pat, syncVars,
                   rpt, snt, corr, scan, pipe, val, exs>>

\* Lines 61-68: the signal is delivered and _handle_shutdown begins.
AppSignal(sig) ==
    /\ app.pc \in {"starting", "started"}
    /\ app' = [app EXCEPT !.pc = "stop_tracking", !.signal = sig,
                          !.at_signal = app.done]
    /\ UNCHANGED <<now, active, completed, history, stored, ct, pat, syncVars,
                   rpt, snt, corr, scan, pipe, val, exs>>

\* Lines 69-70: if self.price_tracking: self.price_tracking.stop().  Calling a
\* method the class does not define raises AttributeError, which leaves the
\* try block for the except clause of line 82.
AppStopTracking ==
    /\ app.pc = "stop_tracking"
    /\ app' = IF ~app.price_tracking THEN [app EXCEPT !.pc = "report"]
              ELSE IF "stop" \in PriceTrackingServiceMethods
              THEN [app EXCEPT !.pc = "report", !.trail = Append(@, "stopped")]
              ELSE [app EXCEPT !.pc = "shutdown_error",
                               !.trail = Append(@, "AttributeError")]
    /\ UNCHANGED <<now, active, completed, history, stored, ct, pat, syncVars,
                   rpt, snt, corr, scan, pipe, val, exs>>

\* Lines 73-78: the final report; an exception of it is logged.
AppReport(ok) ==
    /\ app.pc = "report"
    /\ app' = [app EXCEPT !.pc = "exit_ok",
                          !.trail = IF ~app.reporting_service THEN @
                                    ELSE IF ok THEN Append(@, "report")
                                    ELSE Append(@, "report_failed")]
    /\ UNCHANGED <<now, active, completed, history, stored, ct, pat, syncVars,
                   rpt, snt, corr, scan, pipe, val, exs>>

\* Line 80: sys.exit(0); SystemExit is no Exception and passes line 82.
AppExitOk ==
    /\ app.pc = "exit_ok"
    /\ app' = [app EXCEPT !.pc = "exited", !.exit = Some(0)]
    /\ UNCHANGED <<now, active, completed, history, stored, ct, pat, syncVars,
                   rpt, snt, corr, scan, pipe, val, exs>>

\* Lines 82-84: the error is logged, sys.exit(1).
AppExitError ==
    /\ app.pc = "shutdown_error"
    /\ app' = [app EXCEPT !.pc = "exited", !.exit = Some(1)]
    /\ UNCHANGED <<now, active, completed, history, stored, ct, pat, syncVars,
                   rpt, snt, corr, scan, pipe, val, exs>>

AppInit ==
    /\ RestInit
    /\ corr = CorrIdle
    /\ scan = ScanIdle
    /\ pipe = PipeIdle
    /\ val = ValIdle
    /\ exs = ExsIdle
    /\ app \in {AppNew(token) : token \in BOOLEAN}

AppNext ==
    \/ AppStartStep
    \/ AppStartFails
    \/ \E sig \in Signals : AppSignal(sig)
    \/ AppStopTracking
    \/ \E ok \in BOOLEAN : AppReport(ok)
    \/ AppExitOk
    \/ AppExitError

SpecApp == AppInit /\ [][AppNext]_vars

\* The signal came when start() had set up its components.
SignalAfterStartUp ==
    app.signal # "" /\ app.at_signal >= 5

\* C39: a process shut down by a signal after start-up has stopped the price
\* tracking, then generated the final report or logged its failure, and
\* exits with status 0.
C39_ShutdownOrderAndStatus ==
    (app.pc = "exited" /\ SignalAfterStartUp) =>
        /\ app.exit = Some(0)
        /\ app.trail \in {<<"stopped", "report">>, <<"stopped", "report_failed">>}
====
